---- MODULE Spec2Model ----
(***************************************************************************)
(* Model of the concurrent batch fetch-and-persist engine of               *)
(* instagram-user-processor:                                               *)
(*   - the synchronous BatchProcessUsersHandler                            *)
(*     (pkg/api/instagram/handlers.go),                                    *)
(*   - RateLimitedWorkerPool, the token bucket of package queue,           *)
(*   - retryWithBackoff of package external,                               *)
(*   - WorkerPool of package queue.                                        *)
(* Each component has its own specification over its own variables; the    *)
(* variables of the other components stay at their initial values.         *)
(***************************************************************************)
EXTENDS Integers, Sequences, FiniteSets, TLC

VARIABLES
    \* ---- synchronous BatchProcessUsersHandler ----
    req,        \* the bound BatchRequest: usernames, max_concurrency,
                \* timeout_seconds
    timeoutSeconds, \* req.TimeoutSeconds after the defaults
    upsertFails,\* the usernames for which UpsertUser returns an error
    persisted,  \* the usernames UpsertUser has written
    hpc,        \* position of the handler goroutine
    unique,     \* normalized, deduplicated usernames
    workerCount,\* number of worker goroutines launched
    ctxErr,     \* ctx.Err() of the batch context: "" while it is not done
    tickReady,  \* a tick is buffered in rateTicker.C
    tickerOn,   \* rateTicker has not been stopped
    jobsClosed, \* close(jobs) has been executed
    fpc,        \* position of the job-feeder goroutine
    fidx,       \* index in unique of the feeder's loop
    wpc,        \* position of each worker goroutine
    wuser,      \* the username a worker holds
    wres,       \* the UserResult a worker is about to send
    collected,  \* the handler's collected slice
    completed,  \* the handler's completed counter
    resp,       \* the BatchResponse written by c.JSON
    fetchReturned, \* some call of ScrapeInstagramUser has returned
    \* ---- RateLimitedWorkerPool: the token bucket ----
    rps,        \* requestsPerSecond, the capacity of the rateLimiter channel
    rateLimiter,\* number of tokens buffered in the rateLimiter channel
    refillAlive,\* the refillRateLimiter goroutine has not returned
    poolCtxDone,\* the pool's ctx is cancelled
    cpc,        \* position of each caller of WaitForRateLimit
    cctx,       \* each caller's ctx is done
    cret,       \* what each caller's last WaitForRateLimit returned
    win,        \* the observed time window and the grants counted in it
    \* ---- retryWithBackoff ----
    rpc,        \* position in retryWithBackoff
    attempt,    \* the loop variable
    lastErr,    \* the local lastErr
    rctxDone,   \* ctx is done
    delays,     \* the backoff delays waited so far, in milliseconds
    opLog,      \* what each call of operation returned, in order
    ret,        \* what retryWithBackoff returned
    operation,  \* the operation passed to retryWithBackoff
    wire,       \* what its calls did: waits on rateLimiter, HTTP requests
    \* ---- WorkerPool ----
    numWorkers, \* wp.numWorkers
    bufferSize, \* capacity of wp.taskChan
    started,    \* Start has been called
    taskChan,   \* the tasks buffered in wp.taskChan, oldest first
    taskChanClosed, \* close(wp.taskChan) has been executed
    pwpc,       \* position of each worker goroutine of the pool
    pwtask,     \* the task a worker of the pool is processing
    stopPc,     \* position of the goroutine calling Stop
    nextTask,   \* the next task the producer submits
    enq,        \* by task, what EnqueueTask returned and what it found
    invokedBy,  \* the workers that invoked Process, by task
    finished,   \* the tasks whose Process has returned
    processedCount, \* wp.processedCount
    errorCount, \* wp.errorCount
    maxErrors,  \* wp.maxErrors
    errors,     \* wp.errors: the task of each retained error, oldest first
    failedTasks, \* the tasks whose Process returned an error
    \* ---- asynchronous BatchProcessUsersHandler ----
    total,      \* len(req.Usernames)
    asyncNumWorkers, \* req.MaxConcurrency after the defaults
    scrapeFails, \* the usernames for which ScrapeInstagramUser fails
    gpc,        \* position of the background goroutine
    gidx,       \* the username the goroutine submits next
    gctxDone,   \* ctx of the goroutine is done
    pctxDone,   \* ctx of the goroutine's pool is cancelled
    ptaskChan,  \* taskChan of the goroutine's pool
    enqErr,     \* the usernames whose EnqueueTask returned an error
    ppc,        \* position of each worker of the goroutine's pool
    ptask,      \* the username a worker is processing
    ptokens,    \* tokens in the rateLimiter of the goroutine's pool
    batch,      \* the batch of scraped users
    upserts,    \* the calls of BatchUpsertUsers, oldest first
    processed,  \* the counter processed
    successful, \* the counter successful
    failed,     \* the counter failed
    aresp,      \* the handler's response
    \* ---- instagram_users table ----
    table,      \* the rows of instagram_users
    now,        \* CURRENT_TIMESTAMP, one unit per call
    lastCall,   \* the last call of UpsertUser or BatchUpsertUsers
    afterOnce,  \* the rows as that call left them
    repeated    \* that call has been made once more

syncVars == << req, timeoutSeconds, upsertFails, persisted, hpc, unique, workerCount, ctxErr, tickReady, tickerOn,
               jobsClosed, fpc, fidx, wpc, wuser, wres, collected,
               completed, resp, fetchReturned >>

rlVars == << rps, rateLimiter, refillAlive, poolCtxDone, cpc, cctx, cret, win >>

retryVars == << rpc, attempt, lastErr, rctxDone, delays, opLog, ret,
                operation, wire >>

wpVars == << numWorkers, bufferSize, started, taskChan, taskChanClosed, pwpc,
             pwtask, stopPc, nextTask, enq, invokedBy, finished,
             processedCount, errorCount, maxErrors, errors, failedTasks >>

\* The effective timeout and the instagram_users store of the handler.
storeVars == << timeoutSeconds, upsertFails, persisted >>

\* The error list of a pool.
errVars == << maxErrors, errors, failedTasks >>

asyncVars == << total, asyncNumWorkers, scrapeFails, gpc, gidx, gctxDone,
                pctxDone, ptaskChan, enqErr, ppc, ptask, ptokens, batch,
                upserts, processed, successful, failed, aresp >>

tableVars == << table, now, lastCall, afterOnce, repeated >>

vars == << syncVars, rlVars, retryVars, wpVars, asyncVars, tableVars >>

nonSyncVars == << rlVars, retryVars, wpVars, asyncVars, tableVars >>
nonRLVars == << syncVars, retryVars, wpVars, asyncVars, tableVars >>
nonRetryVars == << syncVars, rlVars, wpVars, asyncVars, tableVars >>
nonWPVars == << syncVars, retryVars, asyncVars, tableVars >>
nonAsyncVars == << syncVars, rlVars, retryVars, wpVars, tableVars >>
nonStoreVars == << syncVars, rlVars, retryVars, wpVars, asyncVars >>

-----------------------------------------------------------------------------
\* Bounds of the model.

\* longest usernames array of a request
MaxUsers == 3
\* largest max_concurrency of a request
MaxConc == 2
\* largest requestsPerSecond of a pool
MaxRps == 2
\* number of goroutines calling WaitForRateLimit
MaxCallers == 2
\* longest observed time window, in refill intervals, besides one second
MaxWindow == 2
\* largest NumWorkers of a WorkerPool
MaxPoolWorkers == 2
\* largest BufferSize of a WorkerPool
MaxBuffer == 2
\* number of tasks submitted to a WorkerPool
MaxTasks == 2
\* largest MaxErrors option of a WorkerPool
MaxKeptErrors == 1
\* largest max_concurrency and timeout_seconds of the option requests
MaxRequested == 22
\* The most usernames of a request to the asynchronous handler.
MaxAsyncUsers == 3
\* The ids of the users given to the table's writers.
MaxIds == 2
\* The most users of a call of BatchUpsertUsers.
MaxBatch == 2
\* The most calls of UpsertUser.
MaxCalls == 2

-----------------------------------------------------------------------------
\* Strings are sequences of byte values: 32 is ' ', 65..90 are 'A'..'Z',
\* 97..122 are 'a'..'z'.

RECURSIVE Less(_, _)
\* Go's < on strings: bytewise lexicographic order.
Less(s, t) ==
    IF t = << >> THEN FALSE
    ELSE IF s = << >> THEN TRUE
    ELSE IF Head(s) # Head(t) THEN Head(s) < Head(t)
    ELSE Less(Tail(s), Tail(t))

\* strings.ToLower on ASCII.
ToLower(s) == [i \in 1..Len(s) |-> IF s[i] \in 65..90 THEN s[i] + 32 ELSE s[i]]

IsSpace(c) == c \in {9, 10, 11, 12, 13, 32}

RECURSIVE TrimLeft(_)
TrimLeft(s) == IF s # << >> /\ IsSpace(Head(s)) THEN TrimLeft(Tail(s)) ELSE s

RECURSIVE TrimRight(_)
TrimRight(s) ==
    IF s # << >> /\ IsSpace(s[Len(s)]) THEN TrimRight(SubSeq(s, 1, Len(s) - 1))
    ELSE s

\* strings.TrimSpace.
TrimSpace(s) == TrimRight(TrimLeft(s))

RECURSIVE NormalizeFrom(_, _, _)
\* The loop of handlers.go 161-171 from index i on, unique being the slice
\* built so far (seen holds exactly the elements of unique).
NormalizeFrom(usernames, i, acc) ==
    IF i > Len(usernames) THEN acc
    ELSE LET uname == TrimSpace(ToLower(usernames[i]))
         IN  IF uname = << >> THEN NormalizeFrom(usernames, i + 1, acc)
             ELSE IF \E k \in 1..Len(acc) : acc[k] = uname
                  THEN NormalizeFrom(usernames, i + 1, acc)
                  ELSE NormalizeFrom(usernames, i + 1, Append(acc, uname))

\* Faulty variant of Normalize: duplicates are kept.
NormalizeKeepsDuplicates(usernames) ==
    SelectSeq([i \in 1..Len(usernames) |-> TrimSpace(ToLower(usernames[i]))],
              LAMBDA u : u # << >>)

\* handlers.go 158-171.
Normalize(usernames) == NormalizeFrom(usernames, 1, << >>)

\* Faulty variant of EffectiveConcurrency: the requested value is used.
NoClamp(mc) == mc

\* Default of timeout_seconds, handlers.go 148-150.
EffectiveTimeout(t) == IF t <= 0 THEN 300 ELSE t

\* Defaults and clamp of max_concurrency, handlers.go 141-146.
EffectiveConcurrency(mc) ==
    IF mc <= 0 THEN 5 ELSE IF mc > 20 THEN 20 ELSE mc

\* A UserResult: its Username, Status, Error and User fields; user tells
\* where the User came from: "db", "scraped", or "" for a nil User.
UserResult(u, s, e, usr) == [username |-> u, status |-> s, error |-> e, user |-> usr]

\* Faulty variant of InsertStable: the element is put in front.
InsertFront(s, r) == << r >> \o s

RECURSIVE InsertStable(_, _)
\* r inserted into the sorted sequence s after every element not greater.
InsertStable(s, r) ==
    IF s = << >> THEN << r >>
    ELSE IF Less(r.username, Head(s).username) THEN << r >> \o s
    ELSE << Head(s) >> \o InsertStable(Tail(s), r)

\* Faulty variant of SortStable: the slice is left as collected.
Unsorted(s) == s

RECURSIVE SortStable(_)
\* sort.SliceStable(collected, by Username <), handlers.go 286.
SortStable(s) ==
    IF s = << >> THEN << >>
    ELSE InsertStable(SortStable(SubSeq(s, 1, Len(s) - 1)), s[Len(s)])

CountStatus(s, st) == Cardinality({i \in 1..Len(s) : s[i].status = st})

\* The summary of handlers.go 274-299.
Summary(coll, uniq) ==
    [total      |-> Len(uniq),
     successful |-> CountStatus(coll, "success"),
     failed     |-> Len(coll) - CountStatus(coll, "success")]

-----------------------------------------------------------------------------
\* Requests.  The usernames arrays are the prefixes of a few arrays mixing
\* case variants, padded names, blanks and duplicates.

UsernamePatterns ==
    { << <<98>>, <<32, 65>>, <<97>>, <<99, 32>>, <<66>> >>,       \* "b"," A","a","c ","B"
      << <<32>>, <<97>>, <<66>>, <<98>>, <<99>> >>,               \* " ","a","B","b","c"
      << <<99>>, <<98>>, <<97>>, <<97>>, <<100>> >> }             \* "c","b","a","a","d"

\* A usernames array of 101 entries.
Oversized == [i \in 1..101 |-> << 97 >>]

Requests ==
    { [usernames |-> SubSeq(p, 1, n), max_concurrency |-> mc,
       timeout_seconds |-> 0] :
        p \in UsernamePatterns, n \in 0..MaxUsers, mc \in 1..MaxConc }
    \cup { [usernames |-> Oversized, max_concurrency |-> 1, timeout_seconds |-> 0] }

\* Requests of one username with the options around their limits.
OptionRequests ==
    { [usernames |-> << << 97 >> >>, max_concurrency |-> mc,
       timeout_seconds |-> t] :
        mc \in (-MaxRequested)..MaxRequested, t \in (-1)..MaxRequested }

Workers == 1..workerCount

NoResult == UserResult(<< >>, "", "", "")

ctxDone == ctxErr # ""

DeadlineExceeded == "context deadline exceeded"
Canceled == "context canceled"
ScrapeFailed == "scrape failed"

-----------------------------------------------------------------------------
\* The synchronous BatchProcessUsersHandler.

\* Faulty variant of LaunchCount: one worker goroutine per username.
LaunchPerUsername(r) == Len(Normalize(r.usernames))

\* handlers.go 236-240: one worker goroutine per unit of max_concurrency.
LaunchCount(r) == EffectiveConcurrency(r.max_concurrency)

\* Faulty variant of Rejected: the normalized usernames are not looked at.
RejectedBySizeOnly(r) ==
    \/ Len(r.usernames) = 0
    \/ Len(r.usernames) > 100

\* handlers.go 126-138 and 172-177: the requests answered 400.
Rejected(r) ==
    IF Len(r.usernames) = 0 \/ Len(r.usernames) > 100 THEN TRUE
    ELSE Len(Normalize(r.usernames)) = 0

SyncStart(requests) ==
    /\ req \in requests
    /\ timeoutSeconds = 0
    /\ persisted = {}
    /\ hpc = "start"
    /\ unique = << >>
    /\ workerCount = 0
    /\ ctxErr = ""
    /\ tickReady = FALSE
    /\ tickerOn = FALSE
    /\ jobsClosed = FALSE
    /\ fpc = "none"
    /\ fidx = 1
    /\ wpc = << >>
    /\ wuser = << >>
    /\ wres = << >>
    /\ collected = << >>
    /\ completed = 0
    /\ resp = [code |-> 0]
    /\ fetchReturned = FALSE

\* handlers.go 126-138, 172-177: a 400 response, nothing started.
Reject ==
    /\ hpc = "start"
    /\ Rejected(req)
    /\ hpc' = "rejected"
    /\ resp' = [code |-> 400]
    /\ UNCHANGED << req, unique, workerCount, ctxErr, tickReady, tickerOn,
                    jobsClosed, fpc, fidx, wpc, wuser, wres, collected,
                    completed >>
    /\ UNCHANGED fetchReturned
    /\ UNCHANGED storeVars
    /\ UNCHANGED nonSyncVars

\* handlers.go 140-254: defaults, normalization, the batch context, the
\* ticker, the channels, the workers and the feeder.
Accept ==
    /\ hpc = "start"
    /\ ~Rejected(req)
    /\ unique' = Normalize(req.usernames)
    /\ workerCount' = LaunchCount(req)
    /\ wpc' = [w \in 1..LaunchCount(req) |-> "recv"]
    /\ wuser' = [w \in 1..LaunchCount(req) |-> << >>]
    /\ wres' = [w \in 1..LaunchCount(req) |-> NoResult]
    /\ tickerOn' = TRUE
    /\ fpc' = "check"
    /\ fidx' = 1
    /\ hpc' = "collect"
    /\ UNCHANGED << req, ctxErr, tickReady, jobsClosed, collected, completed,
                    resp >>
    /\ UNCHANGED fetchReturned
    /\ timeoutSeconds' = EffectiveTimeout(req.timeout_seconds)
    /\ UNCHANGED << upsertFails, persisted >>
    /\ UNCHANGED nonSyncVars

\* handlers.go 180: the deadline of context.WithTimeout passes.
Timeout ==
    /\ hpc = "collect"
    /\ ctxErr = ""
    /\ ctxErr' = DeadlineExceeded
    /\ UNCHANGED << req, hpc, unique, workerCount, tickReady, tickerOn,
                    jobsClosed, fpc, fidx, wpc, wuser, wres, collected,
                    completed, resp >>
    /\ UNCHANGED fetchReturned
    /\ UNCHANGED storeVars
    /\ UNCHANGED nonSyncVars

\* handlers.go 180: the parent c.Request.Context() is cancelled.
RequestCancelled ==
    /\ hpc = "collect"
    /\ ctxErr = ""
    /\ ctxErr' = Canceled
    /\ UNCHANGED << req, hpc, unique, workerCount, tickReady, tickerOn,
                    jobsClosed, fpc, fidx, wpc, wuser, wres, collected,
                    completed, resp >>
    /\ UNCHANGED fetchReturned
    /\ UNCHANGED storeVars
    /\ UNCHANGED nonSyncVars

\* handlers.go 188: rateTicker delivers a tick into its channel of capacity 1;
\* a tick that finds the channel full is dropped.
Tick ==
    /\ tickerOn
    /\ ~tickReady
    /\ tickReady' = TRUE
    /\ UNCHANGED << req, hpc, unique, workerCount, ctxErr, tickerOn,
                    jobsClosed, fpc, fidx, wpc, wuser, wres, collected,
                    completed, resp >>
    /\ UNCHANGED fetchReturned
    /\ UNCHANGED storeVars
    /\ UNCHANGED nonSyncVars

\* handlers.go 243-254: the feeder's loop head and its select with default.
FeederCheck ==
    /\ fpc = "check"
    /\ IF fidx > Len(unique) \/ ctxDone
       THEN /\ jobsClosed' = TRUE
            /\ fpc' = "done"
       ELSE /\ fpc' = "send"
            /\ UNCHANGED jobsClosed
    /\ UNCHANGED << req, hpc, unique, workerCount, ctxErr, tickReady,
                    tickerOn, fidx, wpc, wuser, wres, collected, completed,
                    resp >>
    /\ UNCHANGED fetchReturned
    /\ UNCHANGED storeVars
    /\ UNCHANGED nonSyncVars

\* Faulty variant of WorkerRecv: the username stays pending after a worker
\* has received it.
WorkerRecvRequeues(w) ==
    /\ wpc[w] = "recv"
    /\ fpc = "send"
    /\ wuser' = [wuser EXCEPT ![w] = unique[fidx]]
    /\ wpc' = [wpc EXCEPT ![w] = "picked"]
    /\ UNCHANGED << req, hpc, unique, workerCount, ctxErr, tickReady,
                    tickerOn, jobsClosed, fpc, fidx, wres, collected,
                    completed, resp >>
    /\ UNCHANGED fetchReturned
    /\ UNCHANGED storeVars
    /\ UNCHANGED nonSyncVars

\* handlers.go 196 and 250: jobs is unbuffered, so the feeder's send and a
\* worker's receive are one step.
WorkerRecv(w) ==
    /\ wpc[w] = "recv"
    /\ fpc = "send"
    /\ wuser' = [wuser EXCEPT ![w] = unique[fidx]]
    /\ wpc' = [wpc EXCEPT ![w] = "picked"]
    /\ fidx' = fidx + 1
    /\ fpc' = "check"
    /\ UNCHANGED << req, hpc, unique, workerCount, ctxErr, tickReady,
                    tickerOn, jobsClosed, wres, collected, completed, resp >>
    /\ UNCHANGED fetchReturned
    /\ UNCHANGED storeVars
    /\ UNCHANGED nonSyncVars

\* handlers.go 196: range over the closed jobs channel ends the worker.
WorkerExit(w) ==
    /\ wpc[w] = "recv"
    /\ jobsClosed
    /\ wpc' = [wpc EXCEPT ![w] = "exit"]
    /\ UNCHANGED << req, hpc, unique, workerCount, ctxErr, tickReady,
                    tickerOn, jobsClosed, fpc, fidx, wuser, wres, collected,
                    completed, resp >>
    /\ UNCHANGED fetchReturned
    /\ UNCHANGED storeVars
    /\ UNCHANGED nonSyncVars

\* handlers.go 197-209: the first ctx check, then GetUserByUsername: a hit
\* gives a success result, anything else leads to the rate gate.
WorkerLookup(w) ==
    /\ wpc[w] = "picked"
    /\ IF ctxDone
       THEN /\ wres' = [wres EXCEPT ![w] = UserResult(wuser[w], "error", ctxErr, "")]
            /\ wpc' = [wpc EXCEPT ![w] = "send"]
       ELSE \/ /\ wres' = [wres EXCEPT ![w] = UserResult(wuser[w], "success", "", "db")]
               /\ wpc' = [wpc EXCEPT ![w] = "send"]
            \/ /\ wpc' = [wpc EXCEPT ![w] = "gate"]
               /\ UNCHANGED wres
    /\ UNCHANGED << req, hpc, unique, workerCount, ctxErr, tickReady,
                    tickerOn, jobsClosed, fpc, fidx, wuser, collected,
                    completed, resp >>
    /\ UNCHANGED fetchReturned
    /\ UNCHANGED storeVars
    /\ UNCHANGED nonSyncVars

\* handlers.go 212-218: the select on ctx.Done() and rateTicker.C; when both
\* are ready either case may be taken.
WorkerGate(w) ==
    /\ wpc[w] = "gate"
    /\ \/ /\ ctxDone
          /\ wres' = [wres EXCEPT ![w] = UserResult(wuser[w], "error", ctxErr, "")]
          /\ wpc' = [wpc EXCEPT ![w] = "send"]
          /\ UNCHANGED tickReady
       \/ /\ tickReady
          /\ tickReady' = FALSE
          /\ wpc' = [wpc EXCEPT ![w] = "scrape"]
          /\ UNCHANGED wres
    /\ UNCHANGED << req, hpc, unique, workerCount, ctxErr, tickerOn,
                    jobsClosed, fpc, fidx, wuser, collected, completed, resp >>
    /\ UNCHANGED fetchReturned
    /\ UNCHANGED storeVars
    /\ UNCHANGED nonSyncVars

\* Faulty variant of ResultAfterUpsert: a failed upsert gives an error result.
ErrorOnUpsertFailure(u, upErr) ==
    IF upErr THEN UserResult(u, "error", "upsert failed", "")
    ELSE UserResult(u, "success", "", "scraped")

\* handlers.go 226-232: the result of a scraped user, whatever UpsertUser
\* returned.
ResultAfterUpsert(u, upErr) == UserResult(u, "success", "", "scraped")

\* Faulty variant of ScrapeReturn: a worker whose fetch failed returns
\* without a result.
ScrapeReturnAborts(w) ==
    /\ wpc[w] = "scrape"
    /\ \E st \in {"success", "error"} :
         /\ wres' = [wres EXCEPT ![w] =
                    IF st = "error" THEN NoResult
                    ELSE ResultAfterUpsert(wuser[w], wuser[w] \in upsertFails)]
         /\ persisted' = IF st = "success" /\ wuser[w] \notin upsertFails
                         THEN persisted \cup {wuser[w]}
                         ELSE persisted
         /\ wpc' = [wpc EXCEPT ![w] = IF st = "error" THEN "exit" ELSE "send"]
    /\ fetchReturned' = TRUE
    /\ UNCHANGED << req, hpc, unique, workerCount, ctxErr, tickReady,
                    tickerOn, jobsClosed, fpc, fidx, wuser, collected,
                    completed, resp >>
    /\ UNCHANGED << timeoutSeconds, upsertFails >>
    /\ UNCHANGED nonSyncVars

\* handlers.go 220-232: ScrapeInstagramUser returns.  An error gives an error
\* result; a user is passed to UpsertUser and gives a success result.
ScrapeReturn(w) ==
    /\ wpc[w] = "scrape"
    /\ \E st \in {"success", "error"} :
         /\ wres' = [wres EXCEPT ![w] =
                    IF st = "error"
                    THEN UserResult(wuser[w], "error", ScrapeFailed, "")
                    ELSE ResultAfterUpsert(wuser[w], wuser[w] \in upsertFails)]
         /\ persisted' = IF st = "success" /\ wuser[w] \notin upsertFails
                         THEN persisted \cup {wuser[w]}
                         ELSE persisted
    /\ fetchReturned' = TRUE
    /\ wpc' = [wpc EXCEPT ![w] = "send"]
    /\ UNCHANGED << req, hpc, unique, workerCount, ctxErr, tickReady,
                    tickerOn, jobsClosed, fpc, fidx, wuser, collected,
                    completed, resp >>
    /\ UNCHANGED << timeoutSeconds, upsertFails >>
    /\ UNCHANGED nonSyncVars

\* handlers.go 268-270 with 199, 207, 214, 222, 232: results is unbuffered,
\* so a worker's send and the handler's receive are one step.  The worker's
\* loop variables are dead once the result is sent.
CollectResult(w) ==
    /\ hpc = "collect"
    /\ completed < Len(unique)
    /\ wpc[w] = "send"
    /\ collected' = Append(collected, wres[w])
    /\ completed' = completed + 1
    /\ wpc' = [wpc EXCEPT ![w] = "recv"]
    /\ wuser' = [wuser EXCEPT ![w] = << >>]
    /\ wres' = [wres EXCEPT ![w] = NoResult]
    /\ UNCHANGED << req, hpc, unique, workerCount, ctxErr, tickReady,
                    tickerOn, jobsClosed, fpc, fidx, resp >>
    /\ UNCHANGED fetchReturned
    /\ UNCHANGED storeVars
    /\ UNCHANGED nonSyncVars

\* Faulty variant of Drain: the unresolved items are left out.
DrainOmit(coll, n, err) == coll

\* Faulty variant of Drain: the synthesized results carry a fixed message.
DrainLiteral(coll, n, err) ==
    coll \o [i \in 1..n |-> UserResult(<< >>, "error", "timeout", "")]

\* handlers.go 261-267: the remaining results are synthesized, without a
\* username.
Drain(coll, n, err) ==
    coll \o [i \in 1..n |-> UserResult(<< >>, "error", err, "")]

CollectTimeout ==
    /\ hpc = "collect"
    /\ completed < Len(unique)
    /\ ctxDone
    /\ collected' = Drain(collected, Len(unique) - completed, ctxErr)
    /\ completed' = Len(unique)
    /\ UNCHANGED << req, hpc, unique, workerCount, ctxErr, tickReady,
                    tickerOn, jobsClosed, fpc, fidx, wpc, wuser, wres, resp >>
    /\ UNCHANGED fetchReturned
    /\ UNCHANGED storeVars
    /\ UNCHANGED nonSyncVars

\* handlers.go 274-301: the summary, the sort and the response; on return
\* the deferred rateTicker.Stop() and cancel() run.
Respond ==
    /\ hpc = "collect"
    /\ completed >= Len(unique)
    /\ resp' = [code    |-> 200,
                results |-> SortStable(collected),
                summary |-> Summary(collected, unique)]
    /\ hpc' = "done"
    /\ tickerOn' = FALSE
    /\ ctxErr' = IF ctxErr = "" THEN Canceled ELSE ctxErr
    /\ UNCHANGED << req, unique, workerCount, tickReady, jobsClosed, fpc,
                    fidx, wpc, wuser, wres, collected, completed >>
    /\ UNCHANGED fetchReturned
    /\ UNCHANGED storeVars
    /\ UNCHANGED nonSyncVars

NextSync ==
    \/ Reject
    \/ Accept
    \/ Timeout
    \/ RequestCancelled
    \/ Tick
    \/ FeederCheck
    \/ \E w \in Workers : WorkerRecv(w)
    \/ \E w \in Workers : WorkerExit(w)
    \/ \E w \in Workers : WorkerLookup(w)
    \/ \E w \in Workers : WorkerGate(w)
    \/ \E w \in Workers : ScrapeReturn(w)
    \/ \E w \in Workers : CollectResult(w)
    \/ CollectTimeout
    \/ Respond

\* The steps of a run in which the batch context is not done before the
\* handler returns.
NextSyncNoTimeout ==
    \/ Reject
    \/ Accept
    \/ Tick
    \/ FeederCheck
    \/ \E w \in Workers : WorkerRecv(w)
    \/ \E w \in Workers : WorkerExit(w)
    \/ \E w \in Workers : WorkerLookup(w)
    \/ \E w \in Workers : WorkerGate(w)
    \/ \E w \in Workers : ScrapeReturn(w)
    \/ \E w \in Workers : CollectResult(w)
    \/ Respond

-----------------------------------------------------------------------------
\* RateLimitedWorkerPool: the token bucket.

\* The requestsPerSecond the asynchronous handler passes.
AsyncRps == 10

Callers == 1..MaxCallers

\* Window lengths in refill intervals; rps intervals make one second.
WindowLengths == (1..MaxWindow) \cup {rps}

\* part_000 329-334: the channel of capacity requestsPerSecond is filled.
NewRateLimiter(n) == n

\* Faulty variant of Refill: the token is sent whether or not the bucket is full.
RefillAlways(tokens, capacity) == tokens + 1

\* part_000 356-361: the non-blocking send of one token.
Refill(tokens, capacity) == IF tokens < capacity THEN tokens + 1 ELSE tokens

\* The window observer: a window of win.len refill intervals, opened at an
\* arbitrary instant, holds win.len ticks of the refill ticker and ends
\* before the next one.
NoWindow == [state |-> "none", len |-> 0, ticks |-> 0, grants |-> 0]

ObserveTick(w) ==
    IF w.state # "open" THEN w
    ELSE IF w.ticks = w.len THEN [w EXCEPT !.state = "closed"]
    ELSE [w EXCEPT !.ticks = w.ticks + 1]

ObserveGrant(w) ==
    IF w.state = "open" THEN [w EXCEPT !.grants = w.grants + 1] ELSE w

RLStart(rpsValues) ==
    /\ rps \in rpsValues
    /\ rateLimiter = NewRateLimiter(rps)
    /\ refillAlive = TRUE
    /\ poolCtxDone = FALSE
    /\ cpc = [c \in Callers |-> "idle"]
    /\ cctx = [c \in Callers |-> FALSE]
    /\ cret = [c \in Callers |-> "none"]
    /\ win = NoWindow

\* An instant is chosen and the window starting there is observed.
OpenWindow ==
    /\ win.state = "none"
    /\ \E k \in WindowLengths :
         win' = [state |-> "open", len |-> k, ticks |-> 0, grants |-> 0]
    /\ UNCHANGED << rps, rateLimiter, refillAlive, poolCtxDone, cpc, cctx, cret >>
    /\ UNCHANGED nonRLVars

\* part_000 355-361: the ticker fires and the refill goroutine handles it.
RefillTick ==
    /\ refillAlive
    /\ rateLimiter' = Refill(rateLimiter, rps)
    /\ win' = ObserveTick(win)
    /\ UNCHANGED << rps, refillAlive, poolCtxDone, cpc, cctx, cret >>
    /\ UNCHANGED nonRLVars

\* part_000 362-363: the refill goroutine sees the pool's ctx done.
RefillExit ==
    /\ refillAlive
    /\ poolCtxDone
    /\ refillAlive' = FALSE
    /\ UNCHANGED << rps, rateLimiter, poolCtxDone, cpc, cctx, cret, win >>
    /\ UNCHANGED nonRLVars

\* part_000 183 and 204: wp.cancel().
CancelPool ==
    /\ ~poolCtxDone
    /\ poolCtxDone' = TRUE
    /\ UNCHANGED << rps, rateLimiter, refillAlive, cpc, cctx, cret, win >>
    /\ UNCHANGED nonRLVars

\* The ctx a caller passes becomes done.
CancelCaller(c) ==
    /\ ~cctx[c]
    /\ cctx' = [cctx EXCEPT ![c] = TRUE]
    /\ UNCHANGED << rps, rateLimiter, refillAlive, poolCtxDone, cpc, cret, win >>
    /\ UNCHANGED nonRLVars

\* part_000 369-370: a goroutine enters WaitForRateLimit.
WaitBegin(c) ==
    /\ cpc[c] = "idle"
    /\ cpc' = [cpc EXCEPT ![c] = "waiting"]
    /\ cret' = [cret EXCEPT ![c] = "none"]
    /\ UNCHANGED << rps, rateLimiter, refillAlive, poolCtxDone, cctx, win >>
    /\ UNCHANGED nonRLVars

\* part_000 371-372: a token is received; nil is returned.
WaitGranted(c) ==
    /\ cpc[c] = "waiting"
    /\ rateLimiter > 0
    /\ rateLimiter' = rateLimiter - 1
    /\ cret' = [cret EXCEPT ![c] = "nil"]
    /\ cpc' = [cpc EXCEPT ![c] = "idle"]
    /\ win' = ObserveGrant(win)
    /\ UNCHANGED << rps, refillAlive, poolCtxDone, cctx >>
    /\ UNCHANGED nonRLVars

\* Faulty variant of WaitCancelled: an error is returned as soon as no token is
\* there, as a select with a default case would.
WaitNoToken(c) ==
    /\ cpc[c] = "waiting"
    /\ cctx[c] \/ rateLimiter = 0
    /\ cret' = [cret EXCEPT ![c] = "err"]
    /\ cpc' = [cpc EXCEPT ![c] = "idle"]
    /\ UNCHANGED << rps, rateLimiter, refillAlive, poolCtxDone, cctx, win >>
    /\ UNCHANGED nonRLVars

\* part_000 373-374: ctx is done; ctx.Err() is returned.
WaitCancelled(c) ==
    /\ cpc[c] = "waiting"
    /\ cctx[c]
    /\ cret' = [cret EXCEPT ![c] = "err"]
    /\ cpc' = [cpc EXCEPT ![c] = "idle"]
    /\ UNCHANGED << rps, rateLimiter, refillAlive, poolCtxDone, cctx, win >>
    /\ UNCHANGED nonRLVars

\* The steps of the pool and of its callers.
NextPool ==
    \/ RefillTick
    \/ RefillExit
    \/ CancelPool
    \/ \E c \in Callers : CancelCaller(c)
    \/ \E c \in Callers : WaitBegin(c)
    \/ \E c \in Callers : WaitGranted(c)
    \/ \E c \in Callers : WaitCancelled(c)

\* The same, observed through a window.
NextRL ==
    \/ OpenWindow
    \/ NextPool

-----------------------------------------------------------------------------
\* retryWithBackoff.

maxRetries == 5
baseDelayMS == 500

RECURSIVE Pow2(_)
Pow2(n) == IF n = 0 THEN 1 ELSE 2 * Pow2(n - 1)

\* What operation() returns: resp is nil, a response whose Status is "ok" or
\* one whose Status is "error"; err is nil, a UserNotFoundError or one of two
\* other errors.
Outcomes == [resp : {"nil", "ok", "error"}, err : {"nil", "UserNotFound", "E1", "E2"}]

\* Faulty variant of IsSuccess: no attempt counts as a success.
NeverSuccess(o) == FALSE

\* models.go 524.
IsSuccess(o) == o.err = "nil" /\ o.resp # "nil" /\ o.resp # "error"

\* Faulty variant of IsUserNotFound: the check never matches.
NeverUserNotFound(e) == FALSE

\* models.go 529-530: errors.As(err, &userNotFoundErr).
IsUserNotFound(e) == e = "UserNotFound"

\* Faulty variant of BackoffDelay: the delay grows linearly.
LinearDelay(a) == baseDelayMS * (a + 1)

\* models.go 544, in milliseconds.
BackoffDelay(a) == baseDelayMS * Pow2(a)

\* Faulty variant of RecordError: the first error is kept.
KeepFirstError(prev, e) == IF prev = "nil" THEN e ELSE prev

\* models.go 535: lastErr = err.
RecordError(prev, e) == e

NoReturn == [resp |-> "none", err |-> "none"]

\* Faulty variant of ScrapeOperation: the request is sent although Wait
\* failed.
ScrapeOperationSendsAnyway(done) ==
    { [resp |-> "nil", err |-> "E1", events |-> << "waitFailed", "http" >>] }
    \cup
    { [resp |-> o.resp, err |-> o.err, events |-> << "wait", "http" >>] :
        o \in { x \in Outcomes : x.resp = "ok" <=> x.err = "nil" } }

\* models.go 575-630: what one call of the operation of ScrapeInstagramUser
\* can do under a ctx whose cancellation is done.  rateLimiter.Wait(ctx)
\* fails when ctx is done and can fail when the wait would pass the
\* deadline of ctx; then the call returns its error (580-582) without a
\* request.  After a successful Wait the request is sent (595) and the call
\* returns a response with a nil error, or an error with or without the
\* response (596-627).
ScrapeOperation(done) ==
    { [resp |-> "nil", err |-> "E1", events |-> << "waitFailed" >>] }
    \cup
    IF done THEN {}
    ELSE { [resp |-> o.resp, err |-> o.err, events |-> << "wait", "http" >>] :
             o \in { x \in Outcomes : x.resp = "ok" <=> x.err = "nil" } }

\* What one call of the operation passed to retryWithBackoff can do: the
\* operation of ScrapeInstagramUser, or any operation, of which only what it
\* returns is known.
Runs(op, done) ==
    IF op = "scrape" THEN ScrapeOperation(done)
    ELSE { [resp |-> o.resp, err |-> o.err, events |-> << >>] : o \in Outcomes }

RetryStart ==
    /\ rpc = "call"
    /\ attempt = 0
    /\ lastErr = "nil"
    /\ rctxDone = FALSE
    /\ delays = << >>
    /\ opLog = << >>
    /\ ret = NoReturn
    /\ wire = << >>

\* models.go 520-544: one iteration up to the backoff wait; delays records
\* the delay of every wait that is begun.
RetryAttempt ==
    /\ rpc = "call"
    /\ \E run \in Runs(operation, rctxDone) :
       LET o == [resp |-> run.resp, err |-> run.err] IN
         /\ opLog' = Append(opLog, o)
         /\ wire' = wire \o run.events
         /\ IF IsSuccess(o)
            THEN /\ ret' = [resp |-> o.resp, err |-> "nil"]
                 /\ rpc' = "done"
                 /\ UNCHANGED << lastErr, delays >>
            ELSE IF IsUserNotFound(o.err)
            THEN /\ ret' = [resp |-> o.resp, err |-> o.err]
                 /\ rpc' = "done"
                 /\ UNCHANGED << lastErr, delays >>
            ELSE /\ lastErr' = RecordError(lastErr, o.err)
                 /\ IF attempt = maxRetries - 1
                    THEN /\ ret' = [resp |-> "nil", err |-> lastErr']
                         /\ rpc' = "done"
                         /\ UNCHANGED delays
                    ELSE /\ rpc' = "wait"
                         /\ delays' = Append(delays, BackoffDelay(attempt))
                         /\ UNCHANGED ret
    /\ UNCHANGED << attempt, rctxDone, operation >>
    /\ UNCHANGED nonRetryVars

\* Faulty variant of RetryWaitElapsed: the attempt is not counted.
RetryWaitSameAttempt ==
    /\ rpc = "wait"
    /\ ~rctxDone
    /\ rpc' = "call"
    /\ UNCHANGED << attempt, lastErr, rctxDone, delays, opLog, ret,
                    operation, wire >>
    /\ UNCHANGED nonRetryVars

\* models.go 557-559 and 520: the timer of time.After fires while ctx is not
\* done, and the loop goes on: attempt++ and the test attempt < maxRetries.
\* The select is resolved by the case that becomes ready first, so the timer
\* case is not taken once ctx is done.
RetryWaitElapsed ==
    /\ rpc = "wait"
    /\ ~rctxDone
    /\ attempt' = attempt + 1
    /\ IF attempt + 1 < maxRetries
       THEN /\ rpc' = "call"
            /\ UNCHANGED ret
       ELSE /\ rpc' = "done"
            /\ ret' = [resp |-> "nil", err |-> lastErr]
    /\ UNCHANGED << lastErr, rctxDone, delays, opLog,
                    operation, wire >>
    /\ UNCHANGED nonRetryVars

\* Faulty variant of RetryWaitCancelled: ctx is ignored and the loop goes on.
RetryWaitIgnoresCtx ==
    /\ rpc = "wait"
    /\ rctxDone
    /\ attempt' = attempt + 1
    /\ rpc' = "call"
    /\ UNCHANGED << lastErr, rctxDone, delays, opLog, ret,
                    operation, wire >>
    /\ UNCHANGED nonRetryVars

\* models.go 555-556: ctx is done during the wait.
RetryWaitCancelled ==
    /\ rpc = "wait"
    /\ rctxDone
    /\ ret' = [resp |-> "nil", err |-> "ctx"]
    /\ rpc' = "done"
    /\ UNCHANGED << attempt, lastErr, rctxDone, delays, opLog,
                    operation, wire >>
    /\ UNCHANGED nonRetryVars

\* The ctx passed to retryWithBackoff becomes done.
RetryCtxDone ==
    /\ rpc # "done"
    /\ ~rctxDone
    /\ rctxDone' = TRUE
    /\ UNCHANGED << rpc, attempt, lastErr, delays, opLog, ret,
                    operation, wire >>
    /\ UNCHANGED nonRetryVars

NextRetry ==
    \/ RetryAttempt
    \/ RetryWaitElapsed
    \/ RetryWaitCancelled
    \/ RetryCtxDone

-----------------------------------------------------------------------------
\* WorkerPool.  A producer goroutine submits the tasks 1..MaxTasks with
\* EnqueueTask, one call per task; another goroutine calls Start, then Stop;
\* WaitForCompletion may cancel the pool's ctx.  The pool is the one embedded
\* in a RateLimitedWorkerPool, whose refill goroutine runs on the same ctx.

Tasks == 1..MaxTasks
PoolWorkers == 1..numWorkers

\* The program has not panicked.
Running ==
    /\ \A t \in Tasks : enq[t].ret # "panic"
    /\ \A w \in 1..numWorkers : pwpc[w] # "panicked"

\* part_000 141-143: the MaxErrors option; a value <= 0 becomes 100.
DefaultMaxErrors(o) == IF o <= 0 THEN 100 ELSE o

\* No call of EnqueueTask yet.
NotCalled == [ret |-> "none", full |-> FALSE, cancelled |-> FALSE]

\* part_000 138-154 and 325-346: a pool as NewRateLimitedWorkerPool leaves it.
WPStart ==
    /\ numWorkers \in 1..MaxPoolWorkers
    /\ bufferSize \in 1..MaxBuffer
    /\ started = FALSE
    /\ taskChan = << >>
    /\ taskChanClosed = FALSE
    /\ pwpc = [w \in PoolWorkers |-> "none"]
    /\ pwtask = [w \in PoolWorkers |-> 0]
    /\ stopPc = "none"
    /\ nextTask = 1
    /\ enq = [t \in Tasks |-> NotCalled]
    /\ invokedBy = [t \in Tasks |-> << >>]
    /\ finished = {}
    /\ processedCount = 0
    /\ errorCount = 0
    /\ maxErrors \in { DefaultMaxErrors(o) : o \in 0..MaxKeptErrors }
    /\ errors = << >>
    /\ failedTasks = {}

\* part_000 157-165: Start launches numWorkers worker goroutines.
Start ==
    /\ Running
    /\ ~started
    /\ started' = TRUE
    /\ pwpc' = [w \in PoolWorkers |-> "select"]
    /\ UNCHANGED << numWorkers, bufferSize, taskChan, taskChanClosed, pwtask,
                    stopPc, nextTask, enq, invokedBy, finished,
                    processedCount, errorCount >>
    /\ UNCHANGED errVars
    /\ UNCHANGED << nonWPVars, rlVars >>

\* The cases of the select of EnqueueTask that can proceed: the send when
\* the buffer has room or the channel is closed, ctx.Done() when the pool's
\* ctx is cancelled.
SendReady == Len(taskChan) < bufferSize \/ taskChanClosed

\* part_000 168-177: EnqueueTask of the next task.  A ready case is chosen;
\* default is taken when none is ready; a send on the closed channel panics.
\* enq records the return value, whether the buffer was full and whether the
\* pool's ctx was cancelled.
EnqueueTask ==
    /\ Running
    /\ nextTask \in Tasks
    /\ \E r \in {"nil", "ctx", "full", "panic"} :
         /\ r = "nil" => (SendReady /\ ~taskChanClosed)
         /\ r = "panic" => (SendReady /\ taskChanClosed)
         /\ r = "ctx" => poolCtxDone
         /\ r = "full" => (~SendReady /\ ~poolCtxDone)
         /\ enq' = [enq EXCEPT ![nextTask] =
                        [ret |-> r, full |-> Len(taskChan) = bufferSize,
                         cancelled |-> poolCtxDone]]
         /\ taskChan' = IF r = "nil" THEN Append(taskChan, nextTask) ELSE taskChan
    /\ nextTask' = nextTask + 1
    /\ UNCHANGED << numWorkers, bufferSize, started, taskChanClosed, pwpc,
                    pwtask, stopPc, invokedBy, finished, processedCount,
                    errorCount >>
    /\ UNCHANGED errVars
    /\ UNCHANGED << nonWPVars, rlVars >>

\* Faulty variant of Receive: the task stays in the channel.
ReceiveKeeps(ch) == ch

\* part_000 230: what a receive leaves in the channel.
Receive(ch) == Tail(ch)

\* part_000 230-237: a worker receives a task and calls processTask, which
\* invokes Process (255).
WorkerReceive(w) ==
    /\ Running
    /\ pwpc[w] = "select"
    /\ taskChan # << >>
    /\ pwtask' = [pwtask EXCEPT ![w] = Head(taskChan)]
    /\ invokedBy' = [invokedBy EXCEPT ![Head(taskChan)] = Append(@, w)]
    /\ taskChan' = Receive(taskChan)
    /\ pwpc' = [pwpc EXCEPT ![w] = "process"]
    /\ UNCHANGED << numWorkers, bufferSize, started, taskChanClosed, stopPc,
                    nextTask, enq, finished, processedCount, errorCount >>
    /\ UNCHANGED errVars
    /\ UNCHANGED << nonWPVars, rlVars >>

\* part_000 230-234: the channel is closed and drained; the worker returns.
WorkerChannelClosed(w) ==
    /\ Running
    /\ pwpc[w] = "select"
    /\ taskChan = << >>
    /\ taskChanClosed
    /\ pwpc' = [pwpc EXCEPT ![w] = "exit"]
    /\ UNCHANGED << numWorkers, bufferSize, started, taskChan, taskChanClosed,
                    pwtask, stopPc, nextTask, enq, invokedBy, finished,
                    processedCount, errorCount >>
    /\ UNCHANGED errVars
    /\ UNCHANGED << nonWPVars, rlVars >>

\* part_000 239-241: the pool's ctx is done; the worker returns.
WorkerCtxDone(w) ==
    /\ Running
    /\ pwpc[w] = "select"
    /\ poolCtxDone
    /\ pwpc' = [pwpc EXCEPT ![w] = "exit"]
    /\ UNCHANGED << numWorkers, bufferSize, started, taskChan, taskChanClosed,
                    pwtask, stopPc, nextTask, enq, invokedBy, finished,
                    processedCount, errorCount >>
    /\ UNCHANGED errVars
    /\ UNCHANGED << nonWPVars, rlVars >>

\* Faulty variant of recordError: every error is retained.
recordErrorUncapped(errs, t) == Append(errs, t)

\* part_000 289-296: recordError retains the error while the list holds
\* fewer than maxErrors.
recordError(errs, t) == IF Len(errs) < maxErrors THEN Append(errs, t) ELSE errs

\* Faulty variant of ProcessReturn: a worker whose task failed returns.
ProcessReturnExitOnError(w) ==
    /\ Running
    /\ pwpc[w] = "process"
    /\ \E taskErr \in BOOLEAN :
         /\ errorCount' = IF taskErr THEN errorCount + 1 ELSE errorCount
         /\ errors' = IF taskErr THEN recordError(errors, pwtask[w]) ELSE errors
         /\ failedTasks' = IF taskErr THEN failedTasks \cup {pwtask[w]}
                                     ELSE failedTasks
         /\ pwpc' = [pwpc EXCEPT ![w] = IF taskErr THEN "exit" ELSE "select"]
    /\ processedCount' = processedCount + 1
    /\ finished' = finished \cup {pwtask[w]}
    /\ pwtask' = [pwtask EXCEPT ![w] = 0]
    /\ UNCHANGED << numWorkers, bufferSize, started, taskChan, taskChanClosed,
                    stopPc, nextTask, enq, invokedBy, maxErrors >>
    /\ UNCHANGED << nonWPVars, rlVars >>

\* part_000 255-276: Process returns, with an error or without; the counters
\* and the error list are updated and the worker goes back to its select.
ProcessReturn(w) ==
    /\ Running
    /\ pwpc[w] = "process"
    /\ \E taskErr \in BOOLEAN :
         /\ errorCount' = IF taskErr THEN errorCount + 1 ELSE errorCount
         /\ errors' = IF taskErr THEN recordError(errors, pwtask[w]) ELSE errors
         /\ failedTasks' = IF taskErr THEN failedTasks \cup {pwtask[w]}
                                     ELSE failedTasks
    /\ processedCount' = processedCount + 1
    /\ finished' = finished \cup {pwtask[w]}
    /\ pwtask' = [pwtask EXCEPT ![w] = 0]
    /\ pwpc' = [pwpc EXCEPT ![w] = "select"]
    /\ UNCHANGED << numWorkers, bufferSize, started, taskChan, taskChanClosed,
                    stopPc, nextTask, enq, invokedBy, maxErrors >>
    /\ UNCHANGED << nonWPVars, rlVars >>

\* part_000 255: Process panics.  processTask and worker have no recover, so
\* the panic unwinds the worker goroutine and ends the program.
ProcessPanic(w) ==
    /\ Running
    /\ pwpc[w] = "process"
    /\ pwpc' = [pwpc EXCEPT ![w] = "panicked"]
    /\ UNCHANGED << numWorkers, bufferSize, started, taskChan, taskChanClosed,
                    pwtask, stopPc, nextTask, enq, invokedBy, finished,
                    processedCount, errorCount >>
    /\ UNCHANGED errVars
    /\ UNCHANGED << nonWPVars, rlVars >>

\* part_000 181: Stop closes the channel.
StopClose ==
    /\ Running
    /\ started
    /\ stopPc = "none"
    /\ taskChanClosed' = TRUE
    /\ stopPc' = "wait"
    /\ UNCHANGED << numWorkers, bufferSize, started, taskChan, pwpc, pwtask,
                    nextTask, enq, invokedBy, finished, processedCount,
                    errorCount >>
    /\ UNCHANGED errVars
    /\ UNCHANGED << nonWPVars, rlVars >>

\* Faulty variant of WaitGroupZero: Stop does not wait.
NoWait == TRUE

\* part_000 182: wp.wg.Wait() returns when every worker has called wg.Done().
WaitGroupZero == \A w \in PoolWorkers : pwpc[w] = "exit"

\* part_000 182-183: the workers have returned; Stop cancels the ctx and
\* returns.
StopReturn ==
    /\ Running
    /\ stopPc = "wait"
    /\ WaitGroupZero
    /\ poolCtxDone' = TRUE
    /\ stopPc' = "returned"
    /\ UNCHANGED << numWorkers, bufferSize, started, taskChan, taskChanClosed,
                    pwpc, pwtask, nextTask, enq, invokedBy, finished,
                    processedCount, errorCount >>
    /\ UNCHANGED << rps, rateLimiter, refillAlive, cpc, cctx, cret, win >>
    /\ UNCHANGED errVars
    /\ UNCHANGED nonWPVars

\* The steps of a pool; CancelPool is wp.cancel() of WaitForCompletion (204).
NextWP ==
    \/ Start
    \/ EnqueueTask
    \/ \E w \in PoolWorkers : WorkerReceive(w)
    \/ \E w \in PoolWorkers : WorkerChannelClosed(w)
    \/ \E w \in PoolWorkers : WorkerCtxDone(w)
    \/ \E w \in PoolWorkers : ProcessReturn(w)
    \/ \E w \in PoolWorkers : ProcessPanic(w)
    \/ StopClose
    \/ StopReturn
    \/ CancelPool
    \/ RefillExit

-----------------------------------------------------------------------------
\* The asynchronous BatchProcessUsersHandler of src/unnamed/part_001.  The
\* handler launches one background goroutine and answers at once.  The
\* goroutine builds a RateLimitedWorkerPool of MaxConcurrency workers with a
\* buffer of twice as many tasks and AsyncRps tokens, submits one task per
\* username with EnqueueTask, calls WaitForCompletion and makes a last flush.
\* A task is named by the position of its username in the request.  The
\* sections guarded by mu are single steps.  The pool's own counters, which
\* this handler never reads, are those of ProcessReturn above.

\* part_001 181: the size at which the batch is flushed.
batchSize == 10

AsyncTasks == 1..total
AsyncWorkers == 1..asyncNumWorkers

\* part_001 172: BufferSize of the pool.
AsyncBufferSize == asyncNumWorkers * 2

\* The users in a slice of users.
Users(s) == { s[i] : i \in 1..Len(s) }

\* The number of calls of BatchUpsertUsers that were given user t.
UpsertCount(t) == Cardinality({ i \in 1..Len(upserts) : t \in Users(upserts[i].users) })

\* models.go 274-282: what BatchUpsertUsers can return under a ctx.  BeginTx
\* fails on a ctx that is done; otherwise the store decides.
UpsertErrors(done) == IF done THEN {TRUE} ELSE {TRUE, FALSE}

\* No response yet.
NoAsyncResponse ==
    [job_id |-> "", status |-> "", total_users |-> 0, processed_users |-> 0,
     successful_users |-> 0, failed_users |-> 0]

\* part_001 116-154: an accepted request of total usernames and its
\* effective MaxConcurrency; the scrapes of the usernames of scrapeFails
\* fail; the handler is about to launch the goroutine (165).
AsyncStart(sizes, concurrencies) ==
    /\ total \in sizes
    /\ asyncNumWorkers \in { EffectiveConcurrency(mc) : mc \in concurrencies }
    /\ scrapeFails \in {{}, {1}, 1..total}
    /\ gpc = "new"
    /\ gidx = 1
    /\ gctxDone = FALSE
    /\ pctxDone = FALSE
    /\ ptaskChan = << >>
    /\ enqErr = {}
    /\ ppc = [w \in AsyncWorkers |-> "none"]
    /\ ptask = [w \in AsyncWorkers |-> 0]
    /\ ptokens = 0
    /\ batch = << >>
    /\ upserts = << >>
    /\ processed = 0
    /\ successful = 0
    /\ failed = 0
    /\ aresp = NoAsyncResponse

\* Faulty variant of HandlerReady: the handler waits for the goroutine.
HandlerWaits == gpc = "ended"

\* part_001 165 and 227-229: the go statement returns at once, and the
\* handler of an accepted request goes on to its response.
HandlerReady == gpc # "idle"

\* part_001 229-236: the handler's response, sent after the go statement
\* whatever the goroutine has done so far.
AsyncRespond ==
    /\ HandlerReady
    /\ aresp.status = ""
    /\ aresp' = [job_id |-> "uuid", status |-> "running", total_users |-> total,
                 processed_users |-> processed,
                 successful_users |-> successful, failed_users |-> failed]
    /\ UNCHANGED << total, asyncNumWorkers, scrapeFails, gpc, gidx, gctxDone,
                    pctxDone, ptaskChan, enqErr, ppc, ptask, ptokens, batch,
                    upserts, processed, successful, failed >>
    /\ UNCHANGED nonAsyncVars

\* part_001 165-176: the goroutine creates ctx and the pool, whose limiter
\* is filled (part_000 332-335), and starts the workers (part_000 157-165).
GoStart ==
    /\ gpc = "new"
    /\ gpc' = "enqueue"
    /\ ptokens' = NewRateLimiter(AsyncRps)
    /\ ppc' = [w \in AsyncWorkers |-> "select"]
    /\ UNCHANGED << total, asyncNumWorkers, scrapeFails, gidx, gctxDone,
                    pctxDone, ptaskChan, enqErr, ptask, batch, upserts,
                    processed, successful, failed, aresp >>
    /\ UNCHANGED nonAsyncVars

\* part_001 165: the deadline of ctx passes.
JobTimeout ==
    /\ gpc \in {"enqueue", "wait", "flush"}
    /\ ~gctxDone
    /\ gctxDone' = TRUE
    /\ UNCHANGED << total, asyncNumWorkers, scrapeFails, gpc, gidx, pctxDone,
                    ptaskChan, enqErr, ppc, ptask, ptokens, batch, upserts,
                    processed, successful, failed, aresp >>
    /\ UNCHANGED nonAsyncVars

\* part_001 184-216 and part_000 168-177: the goroutine submits the task of
\* the next username and ignores what EnqueueTask returns; after the last
\* username it calls WaitForCompletion.
GoEnqueue ==
    /\ gpc = "enqueue"
    /\ gidx \in AsyncTasks
    /\ \E r \in {"nil", "ctx", "full"} :
         /\ r = "nil" => Len(ptaskChan) < AsyncBufferSize
         /\ r = "ctx" => pctxDone
         /\ r = "full" => (Len(ptaskChan) >= AsyncBufferSize /\ ~pctxDone)
         /\ ptaskChan' = IF r = "nil" THEN Append(ptaskChan, gidx) ELSE ptaskChan
         /\ enqErr' = IF r = "nil" THEN enqErr ELSE enqErr \cup {gidx}
    /\ gidx' = gidx + 1
    /\ gpc' = IF gidx = total THEN "wait" ELSE "enqueue"
    /\ UNCHANGED << total, asyncNumWorkers, scrapeFails, gctxDone, pctxDone,
                    ppc, ptask, ptokens, batch, upserts, processed,
                    successful, failed, aresp >>
    /\ UNCHANGED nonAsyncVars

\* part_001 218 and part_000 192-206: WaitForCompletion returns when every
\* worker has ended, or when ctx is done, and then it cancels the pool.
GoWaitForCompletion ==
    /\ gpc = "wait"
    /\ \/ /\ \A w \in AsyncWorkers : ppc[w] = "exited"
          /\ UNCHANGED pctxDone
       \/ /\ gctxDone
          /\ pctxDone' = TRUE
    /\ gpc' = "flush"
    /\ UNCHANGED << total, asyncNumWorkers, scrapeFails, gidx, gctxDone,
                    ptaskChan, enqErr, ppc, ptask, ptokens, batch, upserts,
                    processed, successful, failed, aresp >>
    /\ UNCHANGED nonAsyncVars

\* part_001 221-225: the last flush passes a non-empty batch to
\* BatchUpsertUsers under ctx.
FlushRemaining(ups, b, err) ==
    IF Len(b) > 0 THEN Append(ups, [users |-> b, err |-> err, by |-> "final"])
    ELSE ups

\* part_001 220-227: the last flush under mu; the batch is not emptied; the
\* goroutine ends.
GoFinalFlush ==
    /\ gpc = "flush"
    /\ \E err \in UpsertErrors(gctxDone) :
         /\ upserts' = FlushRemaining(upserts, batch, err)
         /\ successful' = IF Len(batch) > 0 /\ ~err
                          THEN successful + Len(batch) ELSE successful
    /\ gpc' = "ended"
    /\ UNCHANGED << total, asyncNumWorkers, scrapeFails, gidx, gctxDone,
                    pctxDone, ptaskChan, enqErr, ppc, ptask, ptokens, batch,
                    processed, failed, aresp >>
    /\ UNCHANGED nonAsyncVars

\* part_000 349-366: the refill goroutine adds a token on a tick.
AsyncRefillTick ==
    /\ gpc \notin {"idle", "new"}
    /\ ~pctxDone
    /\ ptokens < AsyncRps
    /\ ptokens' = Refill(ptokens, AsyncRps)
    /\ UNCHANGED << total, asyncNumWorkers, scrapeFails, gpc, gidx, gctxDone,
                    pctxDone, ptaskChan, enqErr, ppc, ptask, batch, upserts,
                    processed, successful, failed, aresp >>
    /\ UNCHANGED nonAsyncVars

\* part_000 230-237 and part_001 189: a worker receives a task, whose
\* Processor calls WaitForRateLimit.
AsyncWorkerReceive(w) ==
    /\ ppc[w] = "select"
    /\ ptaskChan # << >>
    /\ ptask' = [ptask EXCEPT ![w] = Head(ptaskChan)]
    /\ ptaskChan' = Receive(ptaskChan)
    /\ ppc' = [ppc EXCEPT ![w] = "ratelimit"]
    /\ UNCHANGED << total, asyncNumWorkers, scrapeFails, gpc, gidx, gctxDone,
                    pctxDone, enqErr, ptokens, batch, upserts, processed,
                    successful, failed, aresp >>
    /\ UNCHANGED nonAsyncVars

\* part_000 239-242: a worker ends on the cancelled ctx of the pool.
AsyncWorkerCtxDone(w) ==
    /\ ppc[w] = "select"
    /\ pctxDone
    /\ ppc' = [ppc EXCEPT ![w] = "exited"]
    /\ UNCHANGED << total, asyncNumWorkers, scrapeFails, gpc, gidx, gctxDone,
                    pctxDone, ptaskChan, enqErr, ptask, ptokens, batch,
                    upserts, processed, successful, failed, aresp >>
    /\ UNCHANGED nonAsyncVars

\* part_000 369-373 and part_001 194: WaitForRateLimit takes a token, and
\* the Processor calls ScrapeInstagramUser under the pool's ctx; a call
\* that begins under the cancelled ctx is marked.
AsyncRateLimitGranted(w) ==
    /\ ppc[w] = "ratelimit"
    /\ ptokens > 0
    /\ ptokens' = ptokens - 1
    /\ ppc' = [ppc EXCEPT ![w] = IF pctxDone THEN "scrapeCancelled" ELSE "scrape"]
    /\ UNCHANGED << total, asyncNumWorkers, scrapeFails, gpc, gidx, gctxDone,
                    pctxDone, ptaskChan, enqErr, ptask, batch, upserts,
                    processed, successful, failed, aresp >>
    /\ UNCHANGED nonAsyncVars

\* part_000 374-375 and part_001 189-190: WaitForRateLimit returns the
\* error of the pool's ctx; the Processor counts the username as processed
\* and is about to count it as failed.
AsyncRateLimitCancelled(w) ==
    /\ ppc[w] = "ratelimit"
    /\ pctxDone
    /\ processed' = processed + 1
    /\ ppc' = [ppc EXCEPT ![w] = "failing"]
    /\ UNCHANGED << total, asyncNumWorkers, scrapeFails, gpc, gidx, gctxDone,
                    pctxDone, ptaskChan, enqErr, ptask, ptokens, batch,
                    upserts, successful, failed, aresp >>
    /\ UNCHANGED nonAsyncVars

\* models.go 580: a scrape of username u that began under a ctx whose
\* cancellation is begunDone and returns under one whose cancellation is
\* done.  It fails for the usernames of scrapeFails; rateLimiter.Wait fails
\* it when ctx was done from the start; a request in flight when ctx is
\* cancelled fails unless its response was already read.
ScrapeErrors(u, begunDone, done) ==
    IF u \in scrapeFails \/ begunDone THEN {TRUE}
    ELSE IF done THEN {TRUE, FALSE} ELSE {FALSE}

\* part_001 194-196: ScrapeInstagramUser returns and the username is counted
\* as processed.
AsyncScrapeReturn(w) ==
    /\ ppc[w] \in {"scrape", "scrapeCancelled"}
    /\ \E err \in ScrapeErrors(ptask[w], ppc[w] = "scrapeCancelled", pctxDone) :
         ppc' = [ppc EXCEPT ![w] = IF err THEN "failing" ELSE "lock"]
    /\ processed' = processed + 1
    /\ UNCHANGED << total, asyncNumWorkers, scrapeFails, gpc, gidx, gctxDone,
                    pctxDone, ptaskChan, enqErr, ptask, ptokens, batch,
                    upserts, successful, failed, aresp >>
    /\ UNCHANGED nonAsyncVars

\* part_001 191-192 and 197-199: the username is counted as failed and the
\* Processor returns the error; the worker selects again.
AsyncCountFailed(w) ==
    /\ ppc[w] = "failing"
    /\ failed' = failed + 1
    /\ ppc' = [ppc EXCEPT ![w] = "select"]
    /\ UNCHANGED << total, asyncNumWorkers, scrapeFails, gpc, gidx, gctxDone,
                    pctxDone, ptaskChan, enqErr, ptask, ptokens, batch,
                    upserts, processed, successful, aresp >>
    /\ UNCHANGED nonAsyncVars

\* part_001 203-210: what a worker's flush passes to BatchUpsertUsers.
Flushed(ups, b, err) ==
    IF Len(b) >= batchSize THEN Append(ups, [users |-> b, err |-> err, by |-> "size"])
    ELSE ups

\* part_001 201-212: under mu, the worker appends the user to the batch and,
\* when the batch has batchSize users, passes it to BatchUpsertUsers under
\* the pool's ctx and empties it; the Processor returns nil.
AsyncAppend(w) ==
    /\ ppc[w] = "lock"
    /\ LET b == Append(batch, ptask[w]) IN
         \E err \in UpsertErrors(pctxDone) :
            /\ upserts' = Flushed(upserts, b, err)
            /\ successful' = IF Len(b) >= batchSize /\ ~err
                             THEN successful + Len(b) ELSE successful
            /\ batch' = IF Len(b) >= batchSize THEN << >> ELSE b
    /\ ppc' = [ppc EXCEPT ![w] = "select"]
    /\ UNCHANGED << total, asyncNumWorkers, scrapeFails, gpc, gidx, gctxDone,
                    pctxDone, ptaskChan, enqErr, ptask, ptokens, processed,
                    failed, aresp >>
    /\ UNCHANGED nonAsyncVars

NextAsync ==
    \/ AsyncRespond
    \/ GoStart
    \/ JobTimeout
    \/ GoEnqueue
    \/ GoWaitForCompletion
    \/ GoFinalFlush
    \/ AsyncRefillTick
    \/ \E w \in AsyncWorkers : AsyncWorkerReceive(w)
    \/ \E w \in AsyncWorkers : AsyncWorkerCtxDone(w)
    \/ \E w \in AsyncWorkers : AsyncRateLimitGranted(w)
    \/ \E w \in AsyncWorkers : AsyncRateLimitCancelled(w)
    \/ \E w \in AsyncWorkers : AsyncScrapeReturn(w)
    \/ \E w \in AsyncWorkers : AsyncCountFailed(w)
    \/ \E w \in AsyncWorkers : AsyncAppend(w)

-----------------------------------------------------------------------------
\* The instagram_users table and its two writers, UpsertUser and
\* BatchUpsertUsers (src/pkg/database/models.go).  A row is keyed by id
\* (init.sql 8) and its username is unique (init.sql 9).  A user carries an
\* id, a username and followers, which stands for every other column the
\* statement sets from the user.  The database is reachable: a statement
\* fails only on a constraint.  Calls of UpsertUser fill the table, one call
\* of BatchUpsertUsers follows, and the last call may be made once more with
\* the same users.

\* The usernames of the users.
StoreUsernames == {"a", "b"}

\* The users a call can be given.
StoreUsers == [id : 1..MaxIds, username : StoreUsernames, followers : 0..1]

\* The slices of users a call of BatchUpsertUsers can be given.
StoreBatches == UNION { [1..n -> StoreUsers] : n \in 0..MaxBatch }

\* Faulty variant of OnConflictUpdate: followers are added to the row's.
OnConflictAccumulate(row, u, t) ==
    [id |-> row.id, username |-> u.username,
     followers |-> row.followers + u.followers,
     created_at |-> row.created_at, updated_at |-> t]

\* models.go 155-169 and 293-307: ON CONFLICT (id) DO UPDATE sets the columns
\* of the row from the user and updated_at from the clock; created_at stays.
OnConflictUpdate(row, u, t) ==
    [id |-> row.id, username |-> u.username, followers |-> u.followers,
     created_at |-> row.created_at, updated_at |-> t]

\* init.sql 18-22: a new row; created_at and updated_at default to the clock.
InsertRow(u, t) ==
    [id |-> u.id, username |-> u.username, followers |-> u.followers,
     created_at |-> t, updated_at |-> t]

\* models.go 147-176: the upsert statement for user u at time t on the rows
\* tbl.  A row of another id with the same username makes it fail (init.sql
\* 9) and leaves the rows as they were.
UpsertStatement(tbl, u, t) ==
    LET same == { r \in tbl : r.id = u.id }
        clash == \E r \in tbl : r.id # u.id /\ r.username = u.username
    IN  IF clash THEN [err |-> TRUE, rows |-> tbl]
        ELSE IF same = {} THEN [err |-> FALSE, rows |-> tbl \cup {InsertRow(u, t)}]
        ELSE [err |-> FALSE,
              rows |-> (tbl \ same) \cup { OnConflictUpdate(r, u, t) : r \in same }]

\* models.go 315-326: the statement is executed for each user in turn, up to
\* the first error.
RECURSIVE ExecAll(_, _, _, _)
ExecAll(tbl, users, i, t) ==
    IF i > Len(users) THEN [err |-> FALSE, rows |-> tbl]
    ELSE LET r == UpsertStatement(tbl, users[i], t)
         IN  IF r.err THEN r ELSE ExecAll(r.rows, users, i + 1, t)

\* models.go 274-333: BatchUpsertUsers in one transaction: an error rolls
\* every statement back (283); no user is no statement (275-277).
BatchUpsert(tbl, users, t) ==
    LET r == ExecAll(tbl, users, 1, t)
    IN  IF r.err THEN [err |-> TRUE, rows |-> tbl] ELSE r

\* The rows without updated_at.
WithoutUpdatedAt(tbl) ==
    { [id |-> r.id, username |-> r.username, followers |-> r.followers,
       created_at |-> r.created_at] : r \in tbl }

\* An empty table, and no call yet.
StoreStart ==
    /\ table = {}
    /\ now = 1
    /\ lastCall = [kind |-> "none", users |-> << >>]
    /\ afterOnce = {}
    /\ repeated = FALSE

\* models.go 145-184: UpsertUser of a user, before any call of
\* BatchUpsertUsers.
StoreUpsertUser ==
    /\ now <= MaxCalls
    /\ lastCall.kind # "BatchUpsertUsers"
    /\ \E u \in StoreUsers :
         /\ table' = UpsertStatement(table, u, now).rows
         /\ lastCall' = [kind |-> "UpsertUser", users |-> << u >>]
    /\ afterOnce' = table'
    /\ repeated' = FALSE
    /\ now' = now + 1
    /\ UNCHANGED nonStoreVars

\* models.go 274-333: the one call of BatchUpsertUsers, of a slice of users.
StoreBatchUpsertUsers ==
    /\ lastCall.kind # "BatchUpsertUsers"
    /\ ~repeated
    /\ \E users \in StoreBatches :
         /\ table' = BatchUpsert(table, users, now).rows
         /\ lastCall' = [kind |-> "BatchUpsertUsers", users |-> users]
    /\ afterOnce' = table'
    /\ repeated' = FALSE
    /\ now' = now + 1
    /\ UNCHANGED nonStoreVars

\* The last call is made once more with the same users, at a later time.
StoreRepeat ==
    /\ lastCall.kind # "none"
    /\ ~repeated
    /\ table' = IF lastCall.kind = "UpsertUser"
                THEN UpsertStatement(table, lastCall.users[1], now).rows
                ELSE BatchUpsert(table, lastCall.users, now).rows
    /\ repeated' = TRUE
    /\ now' = now + 1
    /\ UNCHANGED << lastCall, afterOnce >>
    /\ UNCHANGED nonStoreVars

NextStore ==
    \/ StoreUpsertUser
    \/ StoreBatchUpsertUsers
    \/ StoreRepeat

-----------------------------------------------------------------------------
\* The components at rest, and the specifications.

SyncIdle ==
    /\ req = [usernames |-> << >>, max_concurrency |-> 0, timeout_seconds |-> 0]
    /\ timeoutSeconds = 0
    /\ upsertFails = {}
    /\ persisted = {}
    /\ hpc = "idle"
    /\ unique = << >>
    /\ workerCount = 0
    /\ ctxErr = ""
    /\ tickReady = FALSE
    /\ tickerOn = FALSE
    /\ jobsClosed = FALSE
    /\ fpc = "none"
    /\ fidx = 1
    /\ wpc = << >>
    /\ wuser = << >>
    /\ wres = << >>
    /\ collected = << >>
    /\ completed = 0
    /\ resp = [code |-> 0]
    /\ fetchReturned = FALSE

RLIdle ==
    /\ rps = 0
    /\ rateLimiter = 0
    /\ refillAlive = FALSE
    /\ poolCtxDone = FALSE
    /\ cpc = << >>
    /\ cctx = << >>
    /\ cret = << >>
    /\ win = NoWindow

RetryIdle ==
    /\ rpc = "idle"
    /\ attempt = 0
    /\ lastErr = "nil"
    /\ rctxDone = FALSE
    /\ delays = << >>
    /\ opLog = << >>
    /\ ret = NoReturn
    /\ operation = "none"
    /\ wire = << >>

WPIdle ==
    /\ numWorkers = 0
    /\ bufferSize = 0
    /\ started = FALSE
    /\ taskChan = << >>
    /\ taskChanClosed = FALSE
    /\ pwpc = << >>
    /\ pwtask = << >>
    /\ stopPc = "none"
    /\ nextTask = 1
    /\ enq = << >>
    /\ invokedBy = << >>
    /\ finished = {}
    /\ processedCount = 0
    /\ errorCount = 0
    /\ maxErrors = 0
    /\ errors = << >>
    /\ failedTasks = {}

AsyncIdle ==
    /\ total = 0
    /\ asyncNumWorkers = 0
    /\ scrapeFails = {}
    /\ gpc = "idle"
    /\ gidx = 1
    /\ gctxDone = FALSE
    /\ pctxDone = FALSE
    /\ ptaskChan = << >>
    /\ enqErr = {}
    /\ ppc = << >>
    /\ ptask = << >>
    /\ ptokens = 0
    /\ batch = << >>
    /\ upserts = << >>
    /\ processed = 0
    /\ successful = 0
    /\ failed = 0
    /\ aresp = NoAsyncResponse

TableIdle ==
    /\ table = {}
    /\ now = 0
    /\ lastCall = [kind |-> "none", users |-> << >>]
    /\ afterOnce = {}
    /\ repeated = FALSE

\* UpsertUser fails for no username.
StoreUp == upsertFails = {}

InitSync == SyncStart(Requests) /\ StoreUp /\ RLIdle /\ RetryIdle /\ WPIdle /\ AsyncIdle /\ TableIdle

SpecSync == InitSync /\ [][NextSync]_vars

\* The requests below the largest size and the largest concurrency.
SmallRequests ==
    { r \in Requests : Len(r.usernames) < MaxUsers /\ r.max_concurrency < MaxConc }

InitSyncFair == SyncStart(SmallRequests) /\ StoreUp /\ RLIdle /\ RetryIdle /\ WPIdle /\ AsyncIdle /\ TableIdle

\* The handler goroutine is scheduled: its select does not wait once a case
\* is ready.  Nothing is assumed of the workers, the feeder or
\* ScrapeInstagramUser, which may never return.
SpecSyncFair ==
    /\ InitSyncFair
    /\ [][NextSync]_vars
    /\ WF_vars(CollectTimeout)
    /\ WF_vars(Respond)

\* Every goroutine of the handler is scheduled, the ticker ticks and every
\* call of ScrapeInstagramUser returns; the batch context is not done before
\* the handler returns.
SpecSyncLive ==
    /\ InitSyncFair
    /\ [][NextSyncNoTimeout]_vars
    /\ WF_vars(Reject) /\ WF_vars(Accept) /\ WF_vars(Tick)
    /\ WF_vars(FeederCheck) /\ WF_vars(Respond)
    /\ \A w \in 1..MaxConc :
          /\ WF_vars(w \in Workers /\ WorkerRecv(w))
          /\ WF_vars(w \in Workers /\ WorkerExit(w))
          /\ WF_vars(w \in Workers /\ WorkerLookup(w))
          /\ WF_vars(w \in Workers /\ WorkerGate(w))
          /\ WF_vars(w \in Workers /\ ScrapeReturn(w))
          /\ WF_vars(w \in Workers /\ CollectResult(w))

\* UpsertUser fails for some of the usernames.
InitSyncUpsert ==
    /\ SyncStart(SmallRequests)
    /\ upsertFails \in SUBSET { TrimSpace(ToLower(req.usernames[i])) :
                                  i \in 1..Len(req.usernames) }
    /\ RLIdle /\ RetryIdle /\ WPIdle /\ AsyncIdle /\ TableIdle

SpecSyncUpsert == InitSyncUpsert /\ [][NextSync]_vars

\* The defaults of the options, on requests of one username.
InitOptions == SyncStart(OptionRequests) /\ StoreUp /\ RLIdle /\ RetryIdle /\ WPIdle /\ AsyncIdle /\ TableIdle

SpecOptions == InitOptions /\ [][Accept]_vars

\* Pools of every small requestsPerSecond.
InitRL == SyncIdle /\ RLStart(1..MaxRps) /\ RetryIdle /\ WPIdle /\ AsyncIdle /\ TableIdle

SpecRL == InitRL /\ [][NextRL]_vars

\* A goroutine blocked in the select of WaitForRateLimit runs once its ctx
\* case is ready.  No window is observed.
SpecRLFair ==
    /\ InitRL
    /\ [][NextPool]_vars
    /\ \A c \in Callers : WF_vars(WaitCancelled(c))

\* The pool the asynchronous handler creates.
InitRL10 == SyncIdle /\ RLStart({AsyncRps}) /\ RetryIdle /\ WPIdle /\ AsyncIdle /\ TableIdle

SpecRL10 == InitRL10 /\ [][NextRL]_vars

\* retryWithBackoff with any operation.
InitRetry ==
    /\ SyncIdle /\ RLIdle /\ RetryStart /\ WPIdle /\ AsyncIdle /\ TableIdle
    /\ operation = "generic"

SpecRetry == InitRetry /\ [][NextRetry]_vars

\* models.go 632: retryWithBackoff with the operation of
\* ScrapeInstagramUser.
InitScrape ==
    /\ SyncIdle /\ RLIdle /\ RetryStart /\ WPIdle /\ AsyncIdle /\ TableIdle
    /\ operation = "scrape"

SpecScrape == InitScrape /\ [][NextRetry]_vars

\* A RateLimitedWorkerPool of one request per second with the default
\* MaxErrors; no caller of WaitForRateLimit.
InitWP ==
    /\ SyncIdle /\ RLStart({1}) /\ RetryIdle /\ WPStart /\ AsyncIdle /\ TableIdle
    /\ maxErrors = DefaultMaxErrors(0)

SpecWP == InitWP /\ [][NextWP]_vars

\* The same with a buffer below the largest.
InitWPFair == InitWP /\ bufferSize < MaxBuffer

\* The refill goroutine is scheduled.
SpecWPFair ==
    /\ InitWPFair
    /\ [][NextWP]_vars
    /\ WF_vars(RefillExit)

\* Pools with a small MaxErrors and a buffer below the largest.
InitWPErrors ==
    /\ SyncIdle /\ RLStart({1}) /\ RetryIdle /\ WPStart /\ AsyncIdle /\ TableIdle
    /\ maxErrors <= MaxKeptErrors
    /\ bufferSize < MaxBuffer

SpecWPErrors == InitWPErrors /\ [][NextWP]_vars

\* Accepted requests to the asynchronous handler: up to MaxAsyncUsers
\* usernames for one worker, one username fewer for each further worker.
InitAsync ==
    /\ SyncIdle /\ RLIdle /\ RetryIdle /\ WPIdle /\ TableIdle
    /\ AsyncStart(1..MaxAsyncUsers, 1..MaxConc)
    /\ total + asyncNumWorkers <= MaxAsyncUsers + 1

SpecAsync == InitAsync /\ [][NextAsync]_vars

InitStore ==
    /\ SyncIdle /\ RLIdle /\ RetryIdle /\ WPIdle /\ AsyncIdle
    /\ StoreStart

SpecStore == InitStore /\ [][NextStore]_vars

-----------------------------------------------------------------------------
\* Claims about the synchronous BatchProcessUsersHandler.

\* The distinct non-empty normalized usernames of a request.
DistinctNormalized(usernames) ==
    { TrimSpace(ToLower(usernames[i])) : i \in 1..Len(usernames) } \ { << >> }

InFlight == Cardinality({ w \in Workers : wpc[w] = "scrape" })

\* C1: in every response of an accepted request, timeout or not, the number
\* of results equals summary.total and the number of distinct normalized
\* usernames, and successful + failed equals total.
C1_ResultsCountMatchesTotal ==
    hpc = "done" =>
        /\ Len(resp.results) = resp.summary.total
        /\ resp.summary.total = Cardinality(DistinctNormalized(req.usernames))
        /\ resp.summary.successful + resp.summary.failed = resp.summary.total

\* A response after the deadline fired with two items unresolved and one
\* resolved.
C1_Witness ==
    /\ hpc = "done"
    /\ ctxErr = DeadlineExceeded
    /\ Len(resp.results) = 3
    /\ resp.summary.successful = 1
    /\ resp.summary.failed = 2
    /\ \E w \in Workers : wpc[w] = "scrape"

\* C2: every normalized username is the username of exactly one entry of
\* results, also when the timeout elapses before all items resolve.
C2_EveryUsernameExactlyOnce ==
    hpc = "done" =>
        \A i \in 1..Len(unique) :
            Cardinality({ k \in 1..Len(resp.results) :
                            resp.results[k].username = unique[i] }) = 1

\* C3 as stated: when no ScrapeInstagramUser call has returned, one is
\* hanging and the deadline fired, every item is reported with status error
\* carrying the deadline error.
C3_AllItemsDeadlineError ==
    (hpc = "done" /\ ~fetchReturned /\ ctxErr = DeadlineExceeded
        /\ \E w \in Workers : wpc[w] = "scrape") =>
        \A k \in 1..Len(resp.results) :
            /\ resp.results[k].status = "error"
            /\ resp.results[k].error = DeadlineExceeded

\* C3 amended: once the deadline has fired the handler returns, and when no
\* ScrapeInstagramUser call has returned every entry of results is an error
\* carrying the deadline error, except the entries of usernames that
\* GetUserByUsername found, which are success.
C3_DeadlineReturnsAndReports ==
    /\ (ctxErr = DeadlineExceeded) ~> (hpc = "done")
    /\ [](  (hpc = "done" /\ ~fetchReturned /\ ctxErr = DeadlineExceeded) =>
            \A k \in 1..Len(resp.results) :
                \/ /\ resp.results[k].status = "error"
                   /\ resp.results[k].error = DeadlineExceeded
                \/ /\ resp.results[k].status = "success"
                   /\ resp.results[k].user = "db" )

\* The handler has returned on the deadline while a call of
\* ScrapeInstagramUser hangs and none has returned; one username was found
\* in the database and the other is reported as an error.
C3_Witness ==
    /\ hpc = "done"
    /\ ~fetchReturned
    /\ ctxErr = DeadlineExceeded
    /\ InFlight >= 1
    /\ Len(resp.results) = 2
    /\ resp.summary.successful = 1
    /\ resp.summary.failed = 1

\* C4: once the handler has returned no goroutine it started is blocked for
\* ever: where no goroutine can take a step, every worker and the feeder
\* have terminated.
C4_NoGoroutineLeak ==
    (hpc = "done" /\ ~ENABLED NextSync) =>
        /\ fpc = "done"
        /\ \A w \in Workers : wpc[w] = "exit"

\* C5: the number of ScrapeInstagramUser calls in flight never exceeds the
\* effective concurrency.
C5_InFlightBounded ==
    hpc \in {"collect", "done"} =>
        InFlight <= EffectiveConcurrency(req.max_concurrency)

\* As many calls in flight as the effective concurrency allows, with more
\* usernames than workers.
C5_Witness ==
    /\ InFlight = 2
    /\ EffectiveConcurrency(req.max_concurrency) = 2
    /\ Len(unique) > 2

-----------------------------------------------------------------------------
\* Claims about RateLimitedWorkerPool.

\* C6: in any window of w/r refill intervals the tokens granted, summed over
\* all callers, are at most c * w / r.
C6_WindowRateBound ==
    win.state # "none" => win.grants <= rps * win.len

\* C7: with requestsPerSecond = 10 no window of one second (10 refill
\* intervals) sees more than 10 tokens granted.
C7_TenPerSecond ==
    (rps = AsyncRps /\ win.state # "none" /\ win.len = AsyncRps) =>
        win.grants <= AsyncRps

\* C8: the tokens available are always within 0..capacity; a refill tick
\* adds exactly one token to a bucket that is not full and nothing to a full
\* one.
C8_TokensWithinCapacity ==
    /\ [](rateLimiter \in 0..rps)
    /\ [][RefillTick =>
            rateLimiter' = IF rateLimiter = rps THEN rps ELSE rateLimiter + 1]_vars

\* A tick has refilled a bucket from which a token had been taken, and the
\* bucket is full again.
C8_Witness ==
    /\ win.state = "open"
    /\ win.ticks >= 1
    /\ win.grants >= 1
    /\ rateLimiter = rps

\* C9: WaitForRateLimit returns nil only on consuming exactly one token and
\* returns the error only when its ctx is done, consuming none; a caller
\* waiting with its ctx done returns.
C9_WaitForRateLimit ==
    /\ [][\A c \in Callers :
            (cpc[c] = "waiting" /\ cpc'[c] = "idle") =>
                \/ /\ cret'[c] = "nil"
                   /\ rateLimiter' = rateLimiter - 1
                \/ /\ cret'[c] = "err"
                   /\ cctx[c]
                   /\ rateLimiter' = rateLimiter]_vars
    /\ \A c \in Callers : (cpc[c] = "waiting" /\ cctx[c]) ~> (cpc[c] = "idle")

\* A caller was refused on its ctx with the bucket empty while another was
\* granted a token.
C9_Witness ==
    /\ rateLimiter = 0
    /\ \E c, d \in Callers : cret[c] = "err" /\ cret[d] = "nil"

-----------------------------------------------------------------------------
\* Claims about retryWithBackoff.

\* C10: an attempt that returns a UserNotFoundError is the last one:
\* retryWithBackoff has returned that attempt's response and error, and has
\* waited only after the earlier attempts; so an operation that always
\* returns UserNotFoundError is called once.
C10_NoRetryOnUserNotFound ==
    \A i \in 1..Len(opLog) :
        opLog[i].err = "UserNotFound" =>
            /\ i = Len(opLog)
            /\ rpc = "done"
            /\ ret = [resp |-> opLog[i].resp, err |-> "UserNotFound"]
            /\ Len(delays) = i - 1

\* The third attempt returned UserNotFoundError after two retried failures.
C10_Witness ==
    /\ rpc = "done"
    /\ Len(opLog) = 3
    /\ opLog[3].err = "UserNotFound"
    /\ Len(delays) = 2

\* C11: the operation is called at most 5 times; when every attempt has
\* failed with something other than UserNotFoundError and ctx was never
\* cancelled, retryWithBackoff has returned after exactly 5 calls.
C11_AtMostFiveAttempts ==
    /\ Len(opLog) <= 5
    /\ (/\ rpc = "done"
        /\ ~rctxDone
        /\ \A i \in 1..Len(opLog) :
              ~(opLog[i].err = "nil" /\ opLog[i].resp = "ok")
              /\ opLog[i].err # "UserNotFound") => Len(opLog) = 5

\* Five attempts failed with errors, ctx never cancelled.
C11_Witness ==
    /\ rpc = "done"
    /\ ~rctxDone
    /\ Len(opLog) = 5
    /\ \A i \in 1..5 : opLog[i].err \in {"E1", "E2"}

\* C12: the waits begun are those after the failed attempts 0..3, of 500,
\* 1000, 2000 and 4000 milliseconds in this order; none follows the fifth
\* attempt.
C12_BackoffDelays ==
    /\ Len(delays) <= 4
    /\ \A k \in 1..Len(delays) : delays[k] = << 500, 1000, 2000, 4000 >>[k]
    /\ rpc = "wait" => Len(delays) = Len(opLog)
    /\ rpc # "wait" => Len(delays) \in {Len(opLog) - 1, Len(opLog)}
    /\ Len(opLog) = 5 => (rpc = "done" /\ Len(delays) = 4)

\* The fifth attempt has failed after the four waits.
C12_Witness ==
    /\ rpc = "done"
    /\ Len(opLog) = 5
    /\ opLog[5].err = "E1"
    /\ delays = << 500, 1000, 2000, 4000 >>

\* C13: a wait during which ctx is done ends with retryWithBackoff returning
\* the error of ctx, and once it has returned the operation is not called
\* again.
C13_CancelDuringWait ==
    /\ [][(rpc = "wait" /\ rctxDone) =>
            /\ rpc' = "done"
            /\ ret' = [resp |-> "nil", err |-> "ctx"]
            /\ opLog' = opLog]_vars
    /\ [][rpc = "done" => (opLog' = opLog /\ rpc' = "done")]_vars

\* ctx was cancelled during the wait after the second attempt.
C13_Witness ==
    /\ rpc = "done"
    /\ rctxDone
    /\ ret.err = "ctx"
    /\ Len(opLog) = 2
    /\ Len(delays) = 2

\* C14: after five failed attempts the error returned is that of the fifth.
C14_LastErrorReturned ==
    (/\ rpc = "done"
     /\ Len(opLog) = 5
     /\ ~(opLog[5].err = "nil" /\ opLog[5].resp = "ok")
     /\ opLog[5].err # "UserNotFound") => ret.err = opLog[5].err

\* The fifth attempt failed with another error than the first four.
C14_Witness ==
    /\ rpc = "done"
    /\ Len(opLog) = 5
    /\ \A i \in 1..4 : opLog[i].err = "E1"
    /\ opLog[5].err = "E2"
    /\ ret.err = "E2"

\* C15: an attempt that succeeds (nil error, a response whose status is not
\* "error") is the last one, and retryWithBackoff has returned its response
\* with a nil error.
C15_ReturnsOnFirstSuccess ==
    \A i \in 1..Len(opLog) :
        (opLog[i].err = "nil" /\ opLog[i].resp = "ok") =>
            /\ i = Len(opLog)
            /\ rpc = "done"
            /\ ret = [resp |-> "ok", err |-> "nil"]

\* The third attempt succeeded after two failures.
C15_Witness ==
    /\ rpc = "done"
    /\ Len(opLog) = 3
    /\ opLog[1].err = "E1"
    /\ opLog[2].resp = "error"
    /\ opLog[3] = [resp |-> "ok", err |-> "nil"]
    /\ ret = [resp |-> "ok", err |-> "nil"]

-----------------------------------------------------------------------------
\* Claims about WorkerPool.

Accepted == { t \in Tasks : enq[t].ret = "nil" }

AliveWorkers == { w \in PoolWorkers : pwpc[w] \in {"select", "process"} }

\* C16: Process is invoked at most once for every task, only for tasks that
\* EnqueueTask accepted, and a task is held by at most one worker.
C16_ProcessedAtMostOnce ==
    \A t \in Tasks :
        /\ Len(invokedBy[t]) <= 1
        /\ invokedBy[t] # << >> => t \in Accepted
        /\ Cardinality({ w \in PoolWorkers : pwtask[w] = t }) <= 1

\* Every task was accepted and has been processed, by two workers.
C16_Witness ==
    /\ Accepted = Tasks
    /\ finished = Tasks
    /\ \E t, u \in Tasks : invokedBy[t] = << 1 >> /\ invokedBy[u] = << 2 >>

\* C17: when Stop has returned, Process has returned for every task that
\* EnqueueTask accepted.
C17_StopProcessesAllAccepted ==
    stopPc = "returned" => Accepted \subseteq finished

\* C18: when Stop has returned no worker goroutine is alive, and the refill
\* goroutine terminates afterwards.
C18_NoWorkerAfterStop ==
    /\ [](stopPc = "returned" => AliveWorkers = {})
    /\ (stopPc = "returned") ~> ~refillAlive

\* Stop has returned after tasks were processed and the refill goroutine
\* has returned.
C18_Witness ==
    /\ stopPc = "returned"
    /\ numWorkers = 2
    /\ finished # {}
    /\ ~refillAlive

\* C19: from Start until Stop is called or the pool's ctx is cancelled,
\* numWorkers worker goroutines are alive as long as nothing panics; a
\* worker whose task returns does not exit.
C19_ExactlyNumWorkers ==
    /\ []((Running /\ started /\ ~taskChanClosed /\ ~poolCtxDone) =>
            Cardinality(AliveWorkers) = numWorkers)
    /\ [][\A w \in PoolWorkers :
            (pwpc[w] = "process" /\ pwpc'[w] # "panicked") =>
                pwpc'[w] \in {"process", "select"}]_vars

\* Two tasks have failed and both workers are back in their select.
C19_Witness ==
    /\ started
    /\ ~taskChanClosed
    /\ ~poolCtxDone
    /\ numWorkers = 2
    /\ errorCount = 2
    /\ \A w \in PoolWorkers : pwpc[w] = "select"

\* C20: a call of EnqueueTask that finds the buffer full and the pool's ctx
\* not cancelled returns "task queue is full", and the task is not enqueued;
\* it returns nil only for a task it placed in the buffer.
C20_EnqueueNeverBlocks ==
    \A t \in 1..(nextTask - 1) :
        /\ (enq[t].full /\ ~enq[t].cancelled) => enq[t].ret = "full"
        /\ enq[t].ret = "full" =>
              (invokedBy[t] = << >>
               /\ \A k \in 1..Len(taskChan) : taskChan[k] # t)
        /\ enq[t].ret = "nil" =>
              (invokedBy[t] # << >>
               \/ \E k \in 1..Len(taskChan) : taskChan[k] = t)

\* C21: a worker whose task's Process panicked is not terminated: the
\* panic is caught and the program goes on.
C21_PanicCaught ==
    /\ Running
    /\ \A w \in PoolWorkers : pwpc[w] # "panicked"

\* C22: the retained errors are never more than maxErrors, and errorCount
\* is the number of completed tasks whose Process returned an error.
C22_ErrorsCappedCountExact ==
    /\ Len(errors) <= maxErrors
    /\ errorCount = Cardinality(failedTasks)
    /\ failedTasks \subseteq finished
    /\ \A k \in 1..Len(errors) : errors[k] \in failedTasks

\* Two tasks have failed in a pool that retains one error.
C22_Witness ==
    /\ maxErrors = 1
    /\ Len(errors) = 1
    /\ errorCount = 2
    /\ Cardinality(failedTasks) = 2

-----------------------------------------------------------------------------
\* More claims about the synchronous BatchProcessUsersHandler.

\* The distinct non-empty strings obtained by trimming, then lowercasing.
TrimmedLowercased(usernames) ==
    { ToLower(TrimSpace(usernames[i])) : i \in 1..Len(usernames) } \ { << >> }

\* The usernames sent on jobs so far.
Dispatched == { unique[i] : i \in 1..(fidx - 1) }

\* The strings of a finite set in increasing order.
RECURSIVE SortNames(_)
SortNames(S) ==
    IF S = {} THEN << >>
    ELSE LET m == CHOOSE x \in S : \A y \in S \ {x} : Less(x, y)
         IN  << m >> \o SortNames(S \ {m})

\* No result of the response reports the batch context done.
NoCtxResult ==
    \A k \in 1..Len(resp.results) :
        /\ resp.results[k].username # << >>
        /\ resp.results[k].error \notin {DeadlineExceeded, Canceled}

\* C23: the work items are the distinct non-empty trimmed and lowercased
\* usernames, each once; every username a worker holds was sent on jobs and
\* no two workers hold the same one.
C23_DispatchedSetIsNormalizedSet ==
    hpc \in {"collect", "done"} =>
        /\ { unique[i] : i \in 1..Len(unique) } = TrimmedLowercased(req.usernames)
        /\ \A i, j \in 1..Len(unique) : unique[i] = unique[j] => i = j
        /\ \A w \in Workers : wuser[w] # << >> => wuser[w] \in Dispatched
        /\ \A w, v \in Workers :
              (wuser[w] # << >> /\ wuser[w] = wuser[v]) => w = v

\* A request of three usernames, two of them case variants with padding,
\* has been answered after two usernames were sent on jobs.
C23_Witness ==
    /\ hpc = "done"
    /\ Len(req.usernames) = 3
    /\ Cardinality({ req.usernames[i] : i \in 1..3 }) = 3
    /\ Len(unique) = 2
    /\ Cardinality(Dispatched) = 2

\* C24: a request whose usernames array is empty, longer than 100 or
\* normalizes to nothing is answered 400 with no worker, feeder or ticker
\* started, no fetch made and nothing persisted.
C24_InvalidRejectedBeforeDispatch ==
    (\/ Len(req.usernames) = 0
     \/ Len(req.usernames) > 100
     \/ TrimmedLowercased(req.usernames) = {}) =>
        /\ hpc \in {"idle", "start", "rejected"}
        /\ hpc = "rejected" => resp.code = 400
        /\ workerCount = 0
        /\ wpc = << >>
        /\ fpc = "none"
        /\ ~tickerOn
        /\ ~fetchReturned
        /\ persisted = {}

\* A request whose only username is blank has been rejected.
C24_Witness ==
    /\ hpc = "rejected"
    /\ resp.code = 400
    /\ Len(req.usernames) = 1

\* C25: the workers launched are within 1..20: 5 for a max_concurrency <= 0,
\* 20 for one above 20, the requested value otherwise; the timeout is 300
\* seconds for a timeout_seconds <= 0.
C25_EffectiveOptions ==
    hpc = "collect" =>
        /\ workerCount \in 1..20
        /\ Len(wpc) = workerCount
        /\ req.max_concurrency <= 0 => workerCount = 5
        /\ req.max_concurrency > 20 => workerCount = 20
        /\ req.max_concurrency \in 1..20 => workerCount = req.max_concurrency
        /\ req.timeout_seconds <= 0 => timeoutSeconds = 300

\* A request of max_concurrency above 20 and a negative timeout_seconds has
\* been accepted.
C25_Witness ==
    /\ hpc = "collect"
    /\ req.max_concurrency > 20
    /\ req.timeout_seconds < 0
    /\ workerCount = 20

\* C26: the results of a response are in non-decreasing order of username.
C26_ResultsSorted ==
    hpc = "done" =>
        \A k \in 1..(Len(resp.results) - 1) :
            ~Less(resp.results[k + 1].username, resp.results[k].username)

\* Three results were collected in another order than that of the response.
C26_Witness ==
    /\ hpc = "done"
    /\ Len(collected) = 3
    /\ collected # resp.results
    /\ NoCtxResult

\* C27: when no result reports the batch context done, the (username,
\* status) sequence of the response is the usernames of the request in
\* increasing order, each with the status of its own result: it does not
\* depend on the order in which the results were collected.
C27_ResponseDeterministic ==
    (hpc = "done" /\ NoCtxResult) =>
        LET names == SortNames(TrimmedLowercased(req.usernames))
            StatusOf(u) ==
                { collected[k].status : k \in { j \in 1..Len(collected) :
                                                  collected[j].username = u } }
        IN  /\ Len(resp.results) = Len(names)
            /\ \A k \in 1..Len(names) :
                  /\ resp.results[k].username = names[k]
                  /\ StatusOf(names[k]) = { resp.results[k].status }

\* Results collected in decreasing order of username, with both statuses.
C27_Witness ==
    /\ hpc = "done"
    /\ NoCtxResult
    /\ Len(collected) = 3
    /\ \A k \in 1..2 : Less(collected[k + 1].username, collected[k].username)
    /\ resp.summary.successful >= 1
    /\ resp.summary.failed >= 1

\* C28: when the batch context is not done before the handler returns, the
\* handler returns, and every username has one result: an error when its
\* fetch failed, a success when its lookup or its fetch succeeded.
C28_FailureIsolated ==
    /\ <>(hpc \in {"done", "rejected"})
    /\ [](hpc = "done" =>
            /\ Len(resp.results) = Len(unique)
            /\ \A i \in 1..Len(unique) :
                 \E k \in 1..Len(resp.results) :
                    resp.results[k] \in
                        { UserResult(unique[i], "success", "", "db"),
                          UserResult(unique[i], "success", "", "scraped"),
                          UserResult(unique[i], "error", ScrapeFailed, "") }
            /\ resp.summary.failed =
                 Cardinality({ k \in 1..Len(resp.results) :
                                 resp.results[k].error = ScrapeFailed })
            /\ resp.summary.successful = Len(unique) - resp.summary.failed)

\* One fetch failed and the other username succeeded.
C28_Witness ==
    /\ hpc = "done"
    /\ Len(resp.results) = 2
    /\ resp.summary.failed = 1
    /\ resp.summary.successful = 1
    /\ \E k \in 1..2 : resp.results[k].error = ScrapeFailed

\* C29: a username that was scraped and for which UpsertUser failed is
\* reported with status success and counted in summary.successful.
C29_UpsertFailureStillSuccess ==
    hpc = "done" =>
        /\ \A k \in 1..Len(resp.results) :
              (/\ resp.results[k].username \in upsertFails
               /\ resp.results[k].error \notin
                     {ScrapeFailed, DeadlineExceeded, Canceled}) =>
                  resp.results[k].status = "success"
        /\ resp.summary.successful = CountStatus(resp.results, "success")
        /\ resp.summary.failed = Len(resp.results) - resp.summary.successful

\* A scraped username whose upsert failed is in the response as a success
\* and nothing was persisted.
C29_Witness ==
    /\ hpc = "done"
    /\ persisted = {}
    /\ resp.summary.successful >= 1
    /\ \E k \in 1..Len(resp.results) :
          /\ resp.results[k].username \in upsertFails
          /\ resp.results[k].user = "scraped"
          /\ resp.results[k].status = "success"

\* The workers that hold username u: they received it and have not yet
\* sent its result.
Holders(u) == { w \in Workers : wuser[w] = u }

\* The results the handler has received for username u.
ResultsFor(u) == { i \in 1..Len(collected) : collected[i].username = u }

\* C33: every username sent on jobs is either held by exactly one worker,
\* which has sent no result for it, or has exactly one result, sent by the
\* worker that held it; a username not yet sent is held by no worker and has
\* no result; and the feeder never goes back to a username it has sent.
C33_ConsumedExactlyOnce ==
    /\ [](\A i \in 1..Len(unique) :
            Cardinality(Holders(unique[i])) + Cardinality(ResultsFor(unique[i]))
               = IF i < fidx THEN 1 ELSE 0)
    /\ [][fidx' >= fidx]_vars

\* Two workers hold two usernames while a third username has its result.
C33_Witness ==
    /\ \E v, w \in Workers : v # w /\ wuser[v] # << >> /\ wuser[w] # << >>
    /\ \E i \in 1..Len(unique) : ResultsFor(unique[i]) # {}
    /\ fidx > 3

\* C34: once the batch ctx is done, no worker that has picked up a username
\* or waits at the rate gate goes on to call ScrapeInstagramUser.
C34_NoScrapeOnceCtxDone ==
    [][\A w \in Workers :
          (ctxDone /\ wpc[w] \in {"picked", "gate"}) => wpc'[w] # "scrape"]_vars

\* C40: EnqueueTask called once Stop has returned returns an error: it does
\* not panic and leaves the channel as it was.
C40_EnqueueAfterStopReturnsError ==
    [][(stopPc = "returned" /\ nextTask' = nextTask + 1) =>
          (enq'[nextTask].ret \in {"ctx", "full"} /\ taskChan' = taskChan)]_vars

\* The positions of event e in the record of the operation's calls.
Events(e) == { i \in 1..Len(wire) : wire[i] = e }

\* C36: in ScrapeInstagramUser every HTTP request comes right after a
\* successful Wait on rateLimiter made by the same attempt, every attempt
\* makes its own Wait, and a failed Wait is followed by no request.
C36_RequestAfterOwnWait ==
    /\ \A i \in Events("http") : i > 1 /\ wire[i - 1] = "wait"
    /\ Cardinality(Events("wait")) = Cardinality(Events("http"))
    /\ Cardinality(Events("wait")) + Cardinality(Events("waitFailed")) = Len(opLog)

\* Retries that sent requests, and a last attempt whose Wait failed.
C36_Witness ==
    /\ Len(opLog) = maxRetries
    /\ Cardinality(Events("http")) = maxRetries - 1
    /\ wire[Len(wire)] = "waitFailed"

\* C39: retryWithBackoff never returns a nil response with a nil error.
C39_NeverNilResponseNilError ==
    rpc = "done" => ~(ret.resp = "nil" /\ ret.err = "nil")

-----------------------------------------------------------------------------
\* Claims about the asynchronous BatchProcessUsersHandler.

\* The users whose scrape succeeded and whose Processor has gone through the
\* section guarded by mu.
Batched == Users(batch) \cup UNION { Users(upserts[i].users) : i \in 1..Len(upserts) }

\* The goroutine has ended and every worker has ended.
AsyncQuiescent ==
    /\ gpc = "ended"
    /\ \A w \in AsyncWorkers : ppc[w] = "exited"

\* C30: once the background goroutine and the workers have ended, every user
\* whose scrape succeeded has been passed to BatchUpsertUsers exactly once,
\* by a flush at batchSize users or by the last flush.
C30_ScrapedUpsertedExactlyOnce ==
    AsyncQuiescent => \A t \in Batched : UpsertCount(t) = 1

\* The goroutine waits in WaitForCompletion before its deadline, the
\* channel of the pool is empty and every worker waits for a task: nothing
\* further is processed unless the deadline passes.
AsyncSettled ==
    /\ gpc = "wait"
    /\ ~gctxDone
    /\ ptaskChan = << >>
    /\ \A w \in AsyncWorkers : ppc[w] = "select"

\* C31: when the deadline does not pass, every username of the request is
\* accepted by the pool and counted as processed: once the goroutine waits
\* and the pool has nothing left to do, processed equals the number of
\* usernames and no EnqueueTask has returned an error.
C31_EveryUsernameProcessed ==
    AsyncSettled => (processed = total /\ enqErr = {})

\* C37: when the goroutine waits in WaitForCompletion before its deadline
\* and every submitted task has finished, WaitForCompletion can return, so
\* that the last flush runs under a ctx that is not done.
C37_WaitReturnsBeforeDeadline ==
    AsyncSettled => ENABLED GoWaitForCompletion

\* C38: once the goroutine and the workers have ended, successful + failed
\* equals processed.
C38_CountersAddUp ==
    AsyncQuiescent => successful + failed = processed

\* C32: the handler of an accepted request can send its response in every
\* state, whatever the goroutine and the workers have done, and the response
\* carries a job_id, the status "running" and the number of usernames of the
\* request as total_users.
C32_RespondsImmediately ==
    /\ aresp.status = "" => ENABLED AsyncRespond
    /\ aresp.status # "" =>
         /\ aresp.job_id # ""
         /\ aresp.status = "running"
         /\ aresp.total_users = total

\* A response sent before the goroutine has run, for a request of several
\* usernames, and, in a later state, tasks being processed after it.
C32_Witness ==
    /\ aresp.status = "running"
    /\ aresp.total_users = MaxAsyncUsers
    /\ aresp.processed_users = 0
    /\ processed > 0

-----------------------------------------------------------------------------
\* Claims about the instagram_users table.

\* C35: a call of UpsertUser or BatchUpsertUsers made once more with the
\* same users leaves the rows, updated_at apart, as the first call left
\* them.
C35_UpsertIdempotent ==
    repeated => WithoutUpdatedAt(table) = WithoutUpdatedAt(afterOnce)

\* A repeated BatchUpsertUsers that updated a row an earlier call had
\* inserted and inserted another.
C35_Witness ==
    /\ repeated
    /\ lastCall.kind = "BatchUpsertUsers"
    /\ Len(lastCall.users) = 2
    /\ Cardinality(table) = 2
    /\ \E r \in table : r.created_at < r.updated_at - 1
    /\ \E r \in table : r.created_at = r.updated_at - 1

====
